---- MODULE Spec2Model ----
(***************************************************************************)
(* goreverseproxy: a policy-enforcing reverse proxy.                       *)
(*                                                                         *)
(*   middleware.Logger (Traffic Recorder)                                  *)
(*     -> RevProxy.ServeHTTP (Inbound Gate)                                *)
(*        -> httputil.ReverseProxy (forwarding engine)                     *)
(*           -> modifyResponse (Sensitive-Data Redactor)                   *)
(*                                                                         *)
(* Texts (bodies, header values, JSON documents) are Go strings / []byte:  *)
(* sequences of bytes 0..255.  A character is one or more bytes (UTF-8),   *)
(* so len() and the rune count of a text differ.                           *)
(***************************************************************************)
EXTENDS Integers, Sequences, FiniteSets, TLC

\* ------------------------------------------------------------------ bytes

\* The printable ASCII characters in code order: AsciiPrintable[i] has code 31 + i.
AsciiPrintable ==
  << " ", "!", "\"", "#", "$", "%", "&", "'", "(", ")", "*", "+", ",", "-", ".", "/",
     "0", "1", "2", "3", "4", "5", "6", "7", "8", "9", ":", ";", "<", "=", ">", "?",
     "@", "A", "B", "C", "D", "E", "F", "G", "H", "I", "J", "K", "L", "M", "N", "O",
     "P", "Q", "R", "S", "T", "U", "V", "W", "X", "Y", "Z", "[", "\\", "]", "^", "_",
     "U+0060", "a", "b", "c", "d", "e", "f", "g", "h", "i", "j", "k", "l", "m", "n", "o",
     "p", "q", "r", "s", "t", "u", "v", "w", "x", "y", "z", "{", "|", "}", "~" >>

AsciiCode ==
  [c \in {AsciiPrintable[i] : i \in DOMAIN AsciiPrintable} |->
     31 + (CHOOSE i \in DOMAIN AsciiPrintable : AsciiPrintable[i] = c)]

\* The UTF-8 encoding of one character.  Characters outside printable ASCII are
\* named: "LF" (U+000A), "NUL" (U+0000), "U+00E9" (two bytes), "U+4E16" (three
\* bytes) and "0xFF" (a byte that is not valid UTF-8, as in a binary payload).
UTF8(c) ==
  CASE c = "LF"     -> << 10 >>
    [] c = "NUL"    -> << 0 >>
    [] c = "U+00E9" -> << 195, 169 >>
    [] c = "U+4E16" -> << 228, 184, 150 >>
    [] c = "0xFF"   -> << 255 >>
    [] OTHER        -> << AsciiCode[c] >>

\* []byte(s) for a text written as a sequence of characters.
RECURSIVE Bytes(_)
Bytes(chars) ==
  IF chars = << >> THEN << >> ELSE UTF8(Head(chars)) \o Bytes(Tail(chars))

\* utf8.RuneCountInString: every byte that is not a continuation byte starts a rune.
RECURSIVE RuneCountInString(_)
RuneCountInString(s) ==
  IF s = << >> THEN 0
  ELSE (IF Head(s) >= 128 /\ Head(s) < 192 THEN 0 ELSE 1) + RuneCountInString(Tail(s))

\* strings.Repeat(unit, count)
RECURSIVE Repeat(_, _)
Repeat(unit, count) ==
  IF count <= 0 THEN << >> ELSE unit \o Repeat(unit, count - 1)

\* strconv.Itoa: a minus sign for n < 0, then the decimal digits, most significant first.
RECURSIVE Itoa(_)
Itoa(n) ==
  IF n < 0 THEN << 45 >> \o Itoa(-n)
  ELSE IF n < 10 THEN << 48 + n >>
  ELSE Itoa(n \div 10) \o << 48 + (n % 10) >>

\* Byte-wise lexicographic order, the order of Go's string comparison.
RECURSIVE StringLess(_, _)
StringLess(a, b) ==
  IF b = << >> THEN FALSE
  ELSE IF a = << >> THEN TRUE
  ELSE IF Head(a) # Head(b) THEN Head(a) < Head(b)
  ELSE StringLess(Tail(a), Tail(b))

\* ------------------------------------------------------- encoding/json

\* A decoded JSON value, as json.Unmarshal into interface{} yields it:
\*   k = "str": s the string's bytes        k = "num", "lit": s the token's text
\*   k = "obj": m a map from key to value   k = "arr": a the elements in order
JStr(s) == [k |-> "str", s |-> s, m |-> << >>, a |-> << >>]
JTok(kind, s) == [k |-> kind, s |-> s, m |-> << >>, a |-> << >>]
JObj(m) == [k |-> "obj", s |-> << >>, m |-> m, a |-> << >>]
JArr(a) == [k |-> "arr", s |-> << >>, m |-> << >>, a |-> a]

ParseFail == [ok |-> FALSE, v |-> JTok("lit", << >>), n |-> 0]
ParseOk(v, n) == [ok |-> TRUE, v |-> v, n |-> n]

IsSpace(b) == b \in {32, 9, 10, 13}
IsDigit(b) == b >= 48 /\ b <= 57

RECURSIVE SkipSpace(_, _)
SkipSpace(t, i) ==
  IF i <= Len(t) /\ IsSpace(t[i]) THEN SkipSpace(t, i + 1) ELSE i

\* The index of the quote that closes a string whose first content byte is at i, or
\* 0 when the string is not closed or holds a control byte.  A backslash starts an
\* escape sequence; escape sequences are outside the modelled alphabet and are
\* rejected here (no modelled body holds one).
RECURSIVE ScanString(_, _)
ScanString(t, i) ==
  IF i > Len(t) THEN 0
  ELSE IF t[i] = 34 THEN i
  ELSE IF t[i] < 32 \/ t[i] = 92 THEN 0
  ELSE ScanString(t, i + 1)

RECURSIVE ScanDigits(_, _)
ScanDigits(t, i) ==
  IF i <= Len(t) /\ IsDigit(t[i]) THEN ScanDigits(t, i + 1) ELSE i

\* An integer literal at i: -?(0|[1-9][0-9]*).  Returns the index after it, 0 if none.
\* (Fractions and exponents are outside the modelled alphabet.)
ScanNumber(t, i) ==
  LET d == IF t[i] = 45 THEN i + 1 ELSE i IN
    IF d > Len(t) \/ ~IsDigit(t[d]) THEN 0
    ELSE IF t[d] = 48 THEN d + 1
    ELSE ScanDigits(t, d)

HasPrefixAt(t, i, p) ==
  /\ i + Len(p) - 1 <= Len(t)
  /\ SubSeq(t, i, i + Len(p) - 1) = p

RECURSIVE ParseValue(_, _)
RECURSIVE ParseMembers(_, _, _, _)
RECURSIVE ParseElements(_, _, _, _)

\* The JSON value that starts at t[i] (i is not on white space).
ParseValue(t, i) ==
  IF i > Len(t) THEN ParseFail
  ELSE IF t[i] = 123 THEN ParseMembers(t, SkipSpace(t, i + 1), << >>, TRUE)
  ELSE IF t[i] = 91 THEN ParseElements(t, SkipSpace(t, i + 1), << >>, TRUE)
  ELSE IF t[i] = 34 THEN
    LET j == ScanString(t, i + 1) IN
      IF j = 0 THEN ParseFail ELSE ParseOk(JStr(SubSeq(t, i + 1, j - 1)), j + 1)
  ELSE IF t[i] = 45 \/ IsDigit(t[i]) THEN
    LET j == ScanNumber(t, i) IN
      IF j = 0 THEN ParseFail ELSE ParseOk(JTok("num", SubSeq(t, i, j - 1)), j)
  ELSE IF HasPrefixAt(t, i, << 116, 114, 117, 101 >>) THEN
    ParseOk(JTok("lit", SubSeq(t, i, i + 3)), i + 4)
  ELSE IF HasPrefixAt(t, i, << 102, 97, 108, 115, 101 >>) THEN
    ParseOk(JTok("lit", SubSeq(t, i, i + 4)), i + 5)
  ELSE IF HasPrefixAt(t, i, << 110, 117, 108, 108 >>) THEN
    ParseOk(JTok("lit", SubSeq(t, i, i + 3)), i + 4)
  ELSE ParseFail

\* The members of an object from t[i] on; m holds the members read so far.  A key
\* that repeats replaces the earlier member (Go map assignment).
ParseMembers(t, i, m, first) ==
  IF i > Len(t) THEN ParseFail
  ELSE IF first /\ t[i] = 125 THEN ParseOk(JObj(m), i + 1)
  ELSE IF t[i] # 34 THEN ParseFail
  ELSE
    LET j == ScanString(t, i + 1) IN
      IF j = 0 THEN ParseFail
      ELSE
        LET key == SubSeq(t, i + 1, j - 1)
            c == SkipSpace(t, j + 1)
        IN
          IF c > Len(t) \/ t[c] # 58 THEN ParseFail
          ELSE
            LET r == ParseValue(t, SkipSpace(t, c + 1)) IN
              IF ~r.ok THEN ParseFail
              ELSE
                LET e == SkipSpace(t, r.n)
                    m2 == (key :> r.v) @@ m
                IN
                  IF e > Len(t) THEN ParseFail
                  ELSE IF t[e] = 125 THEN ParseOk(JObj(m2), e + 1)
                  ELSE IF t[e] = 44 THEN ParseMembers(t, SkipSpace(t, e + 1), m2, FALSE)
                  ELSE ParseFail

\* The elements of an array from t[i] on; a holds the elements read so far.
ParseElements(t, i, a, first) ==
  IF i > Len(t) THEN ParseFail
  ELSE IF first /\ t[i] = 93 THEN ParseOk(JArr(a), i + 1)
  ELSE
    LET r == ParseValue(t, i) IN
      IF ~r.ok THEN ParseFail
      ELSE
        LET e == SkipSpace(t, r.n)
            a2 == Append(a, r.v)
        IN
          IF e > Len(t) THEN ParseFail
          ELSE IF t[e] = 93 THEN ParseOk(JArr(a2), e + 1)
          ELSE IF t[e] = 44 THEN ParseElements(t, SkipSpace(t, e + 1), a2, FALSE)
          ELSE ParseFail

\* json.Unmarshal(data, &v): one JSON value, white space around it, nothing else.
Unmarshal(data) ==
  LET r == ParseValue(data, SkipSpace(data, 1)) IN
    IF r.ok /\ SkipSpace(data, r.n) > Len(data) THEN r ELSE ParseFail

\* The keys of a map in sorted order, as json.Marshal writes them.
RECURSIVE SortedKeys(_)
SortedKeys(keys) ==
  IF keys = {} THEN << >>
  ELSE
    LET least == CHOOSE x \in keys : \A y \in keys \ {x} : StringLess(x, y) IN
      << least >> \o SortedKeys(keys \ {least})

RECURSIVE Marshal(_)
RECURSIVE MarshalMembers(_, _)
RECURSIVE MarshalElements(_)

\* json.Marshal(v): compact text, object keys sorted.
Marshal(v) ==
  CASE v.k = "str" -> << 34 >> \o v.s \o << 34 >>
    [] v.k = "obj" -> << 123 >> \o MarshalMembers(v.m, SortedKeys(DOMAIN v.m)) \o << 125 >>
    [] v.k = "arr" -> << 91 >> \o MarshalElements(v.a) \o << 93 >>
    [] OTHER       -> v.s

MarshalMembers(m, keys) ==
  IF keys = << >> THEN << >>
  ELSE
    << 34 >> \o Head(keys) \o << 34, 58 >> \o Marshal(m[Head(keys)])
      \o (IF Len(keys) > 1 THEN << 44 >> ELSE << >>)
      \o MarshalMembers(m, Tail(keys))

MarshalElements(a) ==
  IF a = << >> THEN << >>
  ELSE
    Marshal(Head(a)) \o (IF Len(a) > 1 THEN << 44 >> ELSE << >>) \o MarshalElements(Tail(a))

\* ------------------------------------------- github.com/bolom009/go-json-mask

\* jsonMask.MaskFilledString("*"): as many mask characters as the value has characters.
MaskFilledString(maskChar, value) == Repeat(maskChar, RuneCountInString(value))

\* The walk of JSONMask.Mask over a decoded document: under every object key that is
\* one of the mask's fields a string value is replaced by the registered string
\* mask; objects and arrays are walked, every other value is kept.
RECURSIVE MaskValue(_, _)
MaskValue(fields, v) ==
  CASE v.k = "obj" ->
         JObj([key \in DOMAIN v.m |->
                 IF key \in fields /\ v.m[key].k = "str"
                 THEN JStr(MaskFilledString(<< 42 >>, v.m[key].s))
                 ELSE MaskValue(fields, v.m[key])])
    [] v.k = "arr" -> JArr([i \in DOMAIN v.a |-> MaskValue(fields, v.a[i])])
    [] OTHER -> v

\* JSONMask.Mask(data): decode, walk, encode; an error for a text that is not JSON.
JSONMaskMask(fields, data) ==
  LET r == Unmarshal(data) IN
    IF ~r.ok THEN [out |-> << >>, err |-> "invalid json"]
    ELSE [out |-> Marshal(MaskValue(fields, r.v)), err |-> "nil"]

\* ------------------------------------------------------------ package config

Range(seq) == {seq[i] : i \in DOMAIN seq}

\* revProxyConfig = &RevProxyConfig{}: the zero value, before InitConfig.
ZeroConfig ==
  [TargetUrl |-> << >>, TargetPort |-> << >>,
   BlockedHeaders |-> << >>, BlockedHeadersMap |-> {},
   BlockedQueryParams |-> << >>, BlockedQueryParamsMap |-> {},
   MaskedNeededKeys |-> << >>, MaskedNeededKeysMap |-> {}]

\* RevProxyConfig.loadConfig on a policy file that was read and decoded: the lists
\* come from the file, each map gets one key per list entry.
loadConfig(r, file) ==
  [r EXCEPT !.TargetUrl = file.targetUrl,
            !.TargetPort = file.targetPort,
            !.BlockedHeaders = file.blockedHeaders,
            !.BlockedHeadersMap = Range(file.blockedHeaders),
            !.BlockedQueryParams = file.blockedQueryParams,
            !.BlockedQueryParamsMap = Range(file.blockedQueryParams),
            !.MaskedNeededKeys = file.maskedNeededKeys,
            !.MaskedNeededKeysMap = Range(file.maskedNeededKeys)]

\* A membership test with the sense of the map lookup inverted.
IsHeaderBlockedInverted(r, header) == header \notin r.BlockedHeadersMap

IsHeaderBlocked(r, header) == header \in r.BlockedHeadersMap

IsQueryParamBlocked(r, param) == param \in r.BlockedQueryParamsMap

\* A lookup that leaves an entry for the name it was asked about.
AfterIsHeaderBlockedStores(r, header) ==
  [r EXCEPT !.BlockedHeadersMap = @ \cup {header}]

\* The receiver after r.IsHeaderBlocked(header): the lookup reads the map and
\* assigns nothing.
AfterIsHeaderBlocked(r, header) == r

\* A lookup that leaves an entry for the parameter it was asked about.
AfterIsQueryParamBlockedStores(r, param) ==
  [r EXCEPT !.BlockedQueryParamsMap = @ \cup {param}]

\* The receiver after r.IsQueryParamBlocked(param).
AfterIsQueryParamBlocked(r, param) == r

\* What the decoder has assigned when yaml.Unmarshal(file, r) returns an error after
\* the scalar fields: the two target fields, none of the lists; the maps are not
\* touched, loadConfig panics before it builds them.
yamlUnmarshalFailed(r, file) ==
  [r EXCEPT !.TargetUrl = file.targetUrl, !.TargetPort = file.targetPort]

\* ------------------------------------------------------------ Inbound Gate

\* req.URL.Query(): the parameters of the raw query, a map from each name to its
\* values in order of appearance.
URLQuery(rawQuery) ==
  [name \in {rawQuery[i].name : i \in DOMAIN rawQuery} |->
     LET at == {i \in DOMAIN rawQuery : rawQuery[i].name = name} IN
       [j \in 1..Cardinality(at) |->
          rawQuery[CHOOSE i \in at : Cardinality({h \in at : h < i}) = j - 1].value]]

\* The orders in which `for k := range m` may visit the keys of a map.
RangeOrders(keys) ==
  {o \in [1..Cardinality(keys) -> keys] : \A i, j \in DOMAIN o : i # j => o[i] # o[j]}

\* for header := range req.Header { if config.IsHeaderBlocked(header) { return true } }
\* << >> when the loop ends without returning, else << the header that made it return >>.
RECURSIVE FirstBlockedHeader(_, _)
FirstBlockedHeader(config, order) ==
  IF order = << >> THEN << >>
  ELSE IF IsHeaderBlocked(config, Head(order)) THEN << Head(order) >>
  ELSE FirstBlockedHeader(config, Tail(order))

RECURSIVE FirstBlockedQueryParam(_, _)
FirstBlockedQueryParam(config, order) ==
  IF order = << >> THEN << >>
  ELSE IF IsQueryParamBlocked(config, Head(order)) THEN << Head(order) >>
  ELSE FirstBlockedQueryParam(config, Tail(order))

\* A gate that tests only the first name each range loop yields.
shouldBlockRequestFirstOnly(config, headerOrder, paramOrder) ==
  IF headerOrder # << >> /\ IsHeaderBlocked(config, Head(headerOrder))
  THEN [blocked |-> TRUE, by |-> << Head(headerOrder) >>]
  ELSE IF paramOrder # << >> /\ IsQueryParamBlocked(config, Head(paramOrder))
  THEN [blocked |-> TRUE, by |-> << Head(paramOrder) >>]
  ELSE [blocked |-> FALSE, by |-> << >>]

\* A gate that tests the query parameters only.
shouldBlockRequestParamsOnly(config, headerOrder, paramOrder) ==
  [blocked |-> FirstBlockedQueryParam(config, paramOrder) # << >>,
   by |-> FirstBlockedQueryParam(config, paramOrder)]

\* A gate that tests the headers only.
shouldBlockRequestHeadersOnly(config, headerOrder, paramOrder) ==
  [blocked |-> FirstBlockedHeader(config, headerOrder) # << >>,
   by |-> FirstBlockedHeader(config, headerOrder)]

\* shouldBlockRequest(req), with the orders in which the two range loops visit the
\* header names and the query parameter names.  `by` is what the debug record names.
shouldBlockRequest(config, headerOrder, paramOrder) ==
  IF FirstBlockedHeader(config, headerOrder) # << >>
  THEN [blocked |-> TRUE, by |-> FirstBlockedHeader(config, headerOrder)]
  ELSE IF FirstBlockedQueryParam(config, paramOrder) # << >>
  THEN [blocked |-> TRUE, by |-> FirstBlockedQueryParam(config, paramOrder)]
  ELSE [blocked |-> FALSE, by |-> << >>]

\* The policy after the range loop over the header names has made its lookups.
RECURSIVE AfterHeaderLoop(_, _)
AfterHeaderLoop(config, order) ==
  IF order = << >> THEN config
  ELSE IF IsHeaderBlocked(config, Head(order))
  THEN AfterIsHeaderBlocked(config, Head(order))
  ELSE AfterHeaderLoop(AfterIsHeaderBlocked(config, Head(order)), Tail(order))

RECURSIVE AfterQueryParamLoop(_, _)
AfterQueryParamLoop(config, order) ==
  IF order = << >> THEN config
  ELSE IF IsQueryParamBlocked(config, Head(order))
  THEN AfterIsQueryParamBlocked(config, Head(order))
  ELSE AfterQueryParamLoop(AfterIsQueryParamBlocked(config, Head(order)), Tail(order))

\* The policy after shouldBlockRequest(req) has returned.
AfterShouldBlockRequest(config, headerOrder, paramOrder) ==
  IF FirstBlockedHeader(config, headerOrder) # << >>
  THEN AfterHeaderLoop(config, headerOrder)
  ELSE AfterQueryParamLoop(AfterHeaderLoop(config, headerOrder), paramOrder)

\* ------------------------------------------------------------- io.Reader

\* A body stream: the bytes it will still deliver, and whether the read after the
\* last byte fails (a connection that broke) instead of reporting io.EOF.
Reader(data, broken) == [data |-> data, broken |-> broken]

Min(a, b) == IF a < b THEN a ELSE b

\* The bytes one Read call delivers from a stream of `size` bytes per call at most.
ReadChunk(r, size) == SubSeq(r.data, 1, Min(size, Len(r.data)))

AfterRead(r, size) ==
  [r EXCEPT !.data = SubSeq(r.data, Min(size, Len(r.data)) + 1, Len(r.data))]

ReadErr(r) == IF r.broken THEN "unexpected EOF" ELSE "nil"

\* io.ReadAll(r): Read until io.EOF or an error; the bytes read come back either way.
RECURSIVE ReadAll(_, _, _)
ReadAll(r, size, acc) ==
  IF r.data = << >> THEN [data |-> acc, err |-> ReadErr(r), reader |-> r]
  ELSE ReadAll(AfterRead(r, size), size, acc \o ReadChunk(r, size))

\* io.ReadAll(io.TeeReader(r, copy)): what each Read delivers is also written to copy.
RECURSIVE ReadAllTee(_, _, _, _)
ReadAllTee(r, size, acc, copy) ==
  IF r.data = << >> THEN [data |-> acc, copy |-> copy, err |-> ReadErr(r), reader |-> r]
  ELSE ReadAllTee(AfterRead(r, size), size,
                  acc \o ReadChunk(r, size), copy \o ReadChunk(r, size))

\* A tee that writes to copy only the bytes of the first Read.
RECURSIVE ReadAllTeeFirstOnly(_, _, _, _)
ReadAllTeeFirstOnly(r, size, acc, copy) ==
  IF r.data = << >> THEN [data |-> acc, copy |-> copy, err |-> ReadErr(r), reader |-> r]
  ELSE ReadAllTeeFirstOnly(AfterRead(r, size), size, acc \o ReadChunk(r, size),
                           IF acc = << >> THEN ReadChunk(r, size) ELSE copy)

\* ------------------------------------------------ Sensitive-Data Redactor

isJSONBody(bodyBytes) == Unmarshal(bodyBytes).ok

\* A redactor that builds the mask from the first mask key only.
maskSensitiveInfoFirstKey(config, data) ==
  LET m == JSONMaskMask(IF config.MaskedNeededKeys = << >> THEN {}
                        ELSE {Head(config.MaskedNeededKeys)}, data) IN
    IF m.err # "nil" THEN [out |-> << >>, err |-> m.err] ELSE [out |-> m.out, err |-> "nil"]

\* A redactor that hands the text back when the mask fails.
maskSensitiveInfoSwallowsError(config, data) ==
  LET m == JSONMaskMask(Range(config.MaskedNeededKeys), data) IN
    IF m.err # "nil" THEN [out |-> data, err |-> "nil"] ELSE [out |-> m.out, err |-> "nil"]

maskSensitiveInfo(config, data) ==
  LET m == JSONMaskMask(Range(config.MaskedNeededKeys), data) IN
    IF m.err # "nil" THEN [out |-> << >>, err |-> m.err] ELSE [out |-> m.out, err |-> "nil"]

\* Header.Set(name, value)
HeaderSet(h, name, value) == (name :> value) @@ h

\* Header.Del(name)
HeaderDel(h, name) == [n \in DOMAIN h \ {name} |-> h[n]]

\* modifyResponse that leaves the Content-Length header as the origin sent it.
modifyResponseStaleLength(config, r, size) ==
  LET rd == ReadAll(r.Body, size, << >>) IN
    IF rd.err # "nil" THEN [err |-> rd.err, r |-> [r EXCEPT !.Body = rd.reader]]
    ELSE IF isJSONBody(rd.data) THEN
      LET masked == maskSensitiveInfo(config, rd.data) IN
        IF masked.err # "nil"
        THEN [err |-> masked.err, r |-> [r EXCEPT !.Body = rd.reader]]
        ELSE [err |-> "nil", r |-> [r EXCEPT !.Body = Reader(masked.out, FALSE)]]
    ELSE [err |-> "nil", r |-> [r EXCEPT !.Body = Reader(rd.data, FALSE)]]

\* modifyResponse that writes the number of characters into Content-Length.
modifyResponseRuneLength(config, r, size) ==
  LET rd == ReadAll(r.Body, size, << >>) IN
    IF rd.err # "nil" THEN [err |-> rd.err, r |-> [r EXCEPT !.Body = rd.reader]]
    ELSE IF isJSONBody(rd.data) THEN
      LET masked == maskSensitiveInfo(config, rd.data) IN
        IF masked.err # "nil"
        THEN [err |-> masked.err, r |-> [r EXCEPT !.Body = rd.reader]]
        ELSE [err |-> "nil",
              r |-> [r EXCEPT !.Body = Reader(masked.out, FALSE),
                              !.Header = HeaderSet(@, "Content-Length",
                                                   Itoa(RuneCountInString(masked.out)))]]
    ELSE [err |-> "nil", r |-> [r EXCEPT !.Body = Reader(rd.data, FALSE)]]

\* modifyResponse that does not put a body back when the body is not JSON.
modifyResponseDrained(config, r, size) ==
  LET rd == ReadAll(r.Body, size, << >>) IN
    IF rd.err # "nil" THEN [err |-> rd.err, r |-> [r EXCEPT !.Body = rd.reader]]
    ELSE IF isJSONBody(rd.data) THEN
      LET masked == maskSensitiveInfo(config, rd.data) IN
        IF masked.err # "nil"
        THEN [err |-> masked.err, r |-> [r EXCEPT !.Body = rd.reader]]
        ELSE [err |-> "nil",
              r |-> [r EXCEPT !.Body = Reader(masked.out, FALSE),
                              !.Header = HeaderSet(@, "Content-Length",
                                                   Itoa(Len(masked.out)))]]
    ELSE [err |-> "nil", r |-> [r EXCEPT !.Body = rd.reader]]

\* modifyResponse that, when reading fails, puts back what it has read and sets
\* Content-Length to it.
modifyResponseReplacesOnError(config, r, size) ==
  LET rd == ReadAll(r.Body, size, << >>) IN
    IF rd.err # "nil"
    THEN [err |-> rd.err,
          r |-> [r EXCEPT !.Body = Reader(rd.data, FALSE),
                          !.Header = HeaderSet(@, "Content-Length", Itoa(Len(rd.data)))]]
    ELSE IF isJSONBody(rd.data) THEN
      LET masked == maskSensitiveInfo(config, rd.data) IN
        IF masked.err # "nil"
        THEN [err |-> masked.err, r |-> [r EXCEPT !.Body = rd.reader]]
        ELSE [err |-> "nil",
              r |-> [r EXCEPT !.Body = Reader(masked.out, FALSE),
                              !.Header = HeaderSet(@, "Content-Length",
                                                   Itoa(Len(masked.out)))]]
    ELSE [err |-> "nil", r |-> [r EXCEPT !.Body = Reader(rd.data, FALSE)]]

\* modifyResponse(r): the hook's error and the response it leaves.  `size` is how
\* many bytes one Read of the origin's body stream delivers at most.
modifyResponse(config, r, size) ==
  LET rd == ReadAll(r.Body, size, << >>) IN
    IF rd.err # "nil" THEN [err |-> rd.err, r |-> [r EXCEPT !.Body = rd.reader]]
    ELSE IF isJSONBody(rd.data) THEN
      LET masked == maskSensitiveInfo(config, rd.data) IN
        IF masked.err # "nil"
        THEN [err |-> masked.err, r |-> [r EXCEPT !.Body = rd.reader]]
        ELSE [err |-> "nil",
              r |-> [r EXCEPT !.Body = Reader(masked.out, FALSE),
                              !.Header = HeaderSet(@, "Content-Length",
                                                   Itoa(Len(masked.out)))]]
    ELSE [err |-> "nil", r |-> [r EXCEPT !.Body = Reader(rd.data, FALSE)]]

\* ------------------------------------------------------ response writers

\* The server's http.ResponseWriter.  calls: every call made on it, in order;
\* status: the status line sent (0: none yet; the first WriteHeader wins, a Write
\* before any WriteHeader sends 200); body: the bytes it accepted.
NewResponseWriter == [header |-> << >>, calls |-> << >>, status |-> 0, body |-> << >>]

\* net/http checkWriteHeaderCode: WriteHeader panics on a code that has not three
\* digits.
WriteHeaderPanics(statusCode) == statusCode < 100 \/ statusCode > 999

ResponseWriterWriteHeader(rw, statusCode) ==
  [rw EXCEPT !.calls = Append(@, [op |-> "WriteHeader", code |-> statusCode,
                                   b |-> << >>, n |-> 0]),
             !.status = IF @ = 0 /\ ~WriteHeaderPanics(statusCode) THEN statusCode ELSE @]

\* Write(b) of which the writer accepts the first n bytes (n < Len(b): an error).
ResponseWriterWrite(rw, b, n) ==
  [rw EXCEPT !.calls = Append(@, [op |-> "Write", code |-> 0, b |-> b, n |-> n]),
             !.status = IF @ = 0 THEN 200 ELSE @,
             !.body = @ \o SubSeq(b, 1, n)]

\* responseData of a new exchange (Logger.ServeHTTP).
NewResponseData == [status |-> 0, size |-> 0, body |-> << >>]

\* A wrapper that counts the bytes offered instead of the bytes written.
lrwWriteCountsOffered(rw, rd, b, n) ==
  [w |-> ResponseWriterWrite(rw, b, n),
   responseData |-> [rd EXCEPT !.size = @ + Len(b), !.body = @ \o b],
   size |-> n,
   err |-> IF n < Len(b) THEN "short write" ELSE "nil"]

\* A wrapper that keeps the size of the last write only.
lrwWriteLastOnly(rw, rd, b, n) ==
  [w |-> ResponseWriterWrite(rw, b, n),
   responseData |-> [rd EXCEPT !.size = n, !.body = @ \o b],
   size |-> n,
   err |-> IF n < Len(b) THEN "short write" ELSE "nil"]

\* A wrapper whose Write reports all of b as written, without error.
lrwWriteReturnsOffered(rw, rd, b, n) ==
  [w |-> ResponseWriterWrite(rw, b, n),
   responseData |-> [rd EXCEPT !.size = @ + n, !.body = @ \o b],
   size |-> Len(b),
   err |-> "nil"]

\* loggingResponseWriter.Write(b), the real writer accepting n bytes of b.
lrwWrite(rw, rd, b, n) ==
  [w |-> ResponseWriterWrite(rw, b, n),
   responseData |-> [rd EXCEPT !.size = @ + n, !.body = @ \o b],
   size |-> n,
   err |-> IF n < Len(b) THEN "short write" ELSE "nil"]

\* A WriteHeader that records the status code and does not pass the call on.
lrwWriteHeaderCaptureOnly(rw, rd, statusCode) ==
  [w |-> rw, responseData |-> [rd EXCEPT !.status = statusCode], panic |-> FALSE]

\* A WriteHeader that records the status code before it passes the call on.
lrwWriteHeaderCaptureFirst(rw, rd, statusCode) ==
  [w |-> ResponseWriterWriteHeader(rw, statusCode),
   responseData |-> [rd EXCEPT !.status = statusCode],
   panic |-> WriteHeaderPanics(statusCode)]

\* A WriteHeader that keeps the first status code it was given.
lrwWriteHeaderFirstWins(rw, rd, statusCode) ==
  [w |-> ResponseWriterWriteHeader(rw, statusCode),
   responseData |-> IF WriteHeaderPanics(statusCode) \/ rd.status # 0 THEN rd
                    ELSE [rd EXCEPT !.status = statusCode],
   panic |-> WriteHeaderPanics(statusCode)]

\* loggingResponseWriter.WriteHeader(statusCode): the call is passed on; when the
\* real writer panics the assignment after it is not reached.
lrwWriteHeader(rw, rd, statusCode) ==
  [w |-> ResponseWriterWriteHeader(rw, statusCode),
   responseData |-> IF WriteHeaderPanics(statusCode) THEN rd
                    ELSE [rd EXCEPT !.status = statusCode],
   panic |-> WriteHeaderPanics(statusCode)]

\* The message of the gate's rejection.
BlockedMessage ==
  Bytes(<< "R", "e", "q", "u", "e", "s", "t", " ", "b", "l", "o", "c", "k", "e", "d", " ",
       "b", "y", " ", "p", "r", "o", "x", "y", " ", "r", "u", "l", "e", "s" >>)

StatusForbidden == 403
StatusBadGateway == 502
StatusOK == 200
StatusNotFound == 404

ContentTypeTextPlain ==
  Bytes(<< "t", "e", "x", "t", "/", "p", "l", "a", "i", "n", ";", " ", "c", "h", "a", "r",
       "s", "e", "t", "=", "u", "t", "f", "-", "8" >>)

ContentTypeJSON ==
  Bytes(<< "a", "p", "p", "l", "i", "c", "a", "t", "i", "o", "n", "/", "j", "s", "o", "n" >>)

\* http.Error on the server's writer itself, past the logging writer.
httpErrorUnrecorded(rw, rd, error, code, n) ==
  LET h == HeaderSet(HeaderSet(HeaderDel(rw.header, "Content-Length"),
                               "Content-Type", ContentTypeTextPlain),
                     "X-Content-Type-Options", Bytes(<< "n", "o", "s", "n", "i", "f", "f" >>))
      hd == lrwWriteHeader([rw EXCEPT !.header = h], rd, code)
      wr == lrwWrite(hd.w, hd.responseData, error \o << 10 >>, n)
  IN [wr EXCEPT !.responseData = rd]

\* http.Error(w, error, code) on the logging writer: the headers of a plain-text
\* answer, the status line, then the message and a line feed (fmt.Fprintln).
httpError(rw, rd, error, code, n) ==
  LET h == HeaderSet(HeaderSet(HeaderDel(rw.header, "Content-Length"),
                               "Content-Type", ContentTypeTextPlain),
                     "X-Content-Type-Options", Bytes(<< "n", "o", "s", "n", "i", "f", "f" >>))
      hd == lrwWriteHeader([rw EXCEPT !.header = h], rd, code)
  IN lrwWrite(hd.w, hd.responseData, error \o << 10 >>, n)

\* ---------------------------------------------------- Traffic Recorder

\* A nil *http.Request.
NilRequest == [nil |-> TRUE]

\* composeRequestHeaders that adds Content-Length and Host only where the request's
\* headers have no entry of that name.
composeRequestHeadersKeep(req) ==
  IF req = NilRequest THEN << >>
  ELSE req.Header
         @@ ("Content-Length" :> << Itoa(req.ContentLength) >>)
         @@ ("Host" :> << req.Host >>)

\* composeRequestHeaders(req): the request's headers, then Content-Length and Host
\* assigned over whatever entry of that name there is.
composeRequestHeaders(req) ==
  IF req = NilRequest THEN << >>
  ELSE ("Content-Length" :> << Itoa(req.ContentLength) >>)
         @@ ("Host" :> << req.Host >>)
         @@ req.Header

ErrorRecord(msg, err) == [level |-> "ERROR", msg |-> msg, attrs |-> [err |-> err]]

\* recordRequest that leaves the drained tee reader as the request's body.
recordRequestNoSplice(req, size, jsonMarshalOk, now) ==
  LET rd == ReadAllTee(req.Body, size, << >>, << >>) IN
    IF rd.err # "nil"
    THEN [req |-> [req EXCEPT !.Body = rd.reader], source |-> rd.reader,
          log |-> << ErrorRecord("Error reading from request body", rd.err) >>]
    ELSE
      LET spliced == [req EXCEPT !.Body = rd.reader] IN
        IF ~jsonMarshalOk
        THEN [req |-> spliced, source |-> rd.reader,
              log |-> << ErrorRecord("jsonMarshal header failed", "Marshalling failed") >>]
        ELSE [req |-> spliced, source |-> rd.reader,
              log |-> << [level |-> "INFO", msg |-> "Record request",
                          attrs |-> [timestamp |-> now,
                                     method |-> req.Method, path |-> req.Path,
                                     query |-> req.RawQuery,
                                     headers |-> composeRequestHeaders(spliced),
                                     body |-> rd.data]] >>]

\* recordRequest whose tee copies the first Read only.
recordRequestShortCopy(req, size, jsonMarshalOk, now) ==
  LET rd == ReadAllTeeFirstOnly(req.Body, size, << >>, << >>) IN
    IF rd.err # "nil"
    THEN [req |-> [req EXCEPT !.Body = rd.reader], source |-> rd.reader,
          log |-> << ErrorRecord("Error reading from request body", rd.err) >>]
    ELSE
      LET spliced == [req EXCEPT !.Body = Reader(rd.copy, FALSE)] IN
        IF ~jsonMarshalOk
        THEN [req |-> spliced, source |-> rd.reader,
              log |-> << ErrorRecord("jsonMarshal header failed", "Marshalling failed") >>]
        ELSE [req |-> spliced, source |-> rd.reader,
              log |-> << [level |-> "INFO", msg |-> "Record request",
                          attrs |-> [timestamp |-> now,
                                     method |-> req.Method, path |-> req.Path,
                                     query |-> req.RawQuery,
                                     headers |-> composeRequestHeaders(spliced),
                                     body |-> rd.data]] >>]

\* recordRequest that goes on after a failed read and records what was read.
recordRequestLogsPartial(req, size, jsonMarshalOk, now) ==
  LET rd == ReadAllTee(req.Body, size, << >>, << >>)
      spliced == [req EXCEPT !.Body = Reader(rd.copy, FALSE)] IN
    [req |-> spliced, source |-> rd.reader,
     log |-> (IF rd.err # "nil"
              THEN << ErrorRecord("Error reading from request body", rd.err) >>
              ELSE << >>)
               \o << [level |-> "INFO", msg |-> "Record request",
                       attrs |-> [timestamp |-> now,
                                  method |-> req.Method, path |-> req.Path,
                                  query |-> req.RawQuery,
                                  headers |-> composeRequestHeaders(spliced),
                                  body |-> rd.data]] >>]

\* recordRequest(req): the request it leaves (its Body replaced), the inbound body
\* stream as the reads left it (source) and the records it logs.  `size`: the bytes
\* one Read of the inbound body delivers at most; jsonMarshalOk: whether jsonMarshal
\* returns without error; now: time.Now().Unix().
recordRequest(req, size, jsonMarshalOk, now) ==
  LET rd == ReadAllTee(req.Body, size, << >>, << >>) IN
    IF rd.err # "nil"
    THEN [req |-> [req EXCEPT !.Body = rd.reader], source |-> rd.reader,
          log |-> << ErrorRecord("Error reading from request body", rd.err) >>]
    ELSE
      LET spliced == [req EXCEPT !.Body = Reader(rd.copy, FALSE)] IN
        IF ~jsonMarshalOk
        THEN [req |-> spliced, source |-> rd.reader,
              log |-> << ErrorRecord("jsonMarshal header failed", "Marshalling failed") >>]
        ELSE [req |-> spliced, source |-> rd.reader,
              log |-> << [level |-> "INFO", msg |-> "Record request",
                          attrs |-> [timestamp |-> now,
                                     method |-> req.Method, path |-> req.Path,
                                     query |-> req.RawQuery,
                                     headers |-> composeRequestHeaders(spliced),
                                     body |-> rd.data]] >>]

\* recordResponse that names the duration field duration_ms.
recordResponseDurationMs(rw, rd, jsonMarshalOk, duration) ==
  (IF jsonMarshalOk THEN << >>
   ELSE << ErrorRecord("jsonMarshal header failed", "Marshalling failed") >>)
    \o << [level |-> "INFO", msg |-> "Request completed",
           attrs |-> [status |-> rd.status, size |-> rd.size,
                      duration_ms |-> duration,
                      headers |-> IF jsonMarshalOk THEN rw.header ELSE << >>,
                      body |-> rd.body]] >>

\* recordResponse(lrw, duration): the records it logs; duration in milliseconds.
recordResponse(rw, rd, jsonMarshalOk, duration) ==
  (IF jsonMarshalOk THEN << >>
   ELSE << ErrorRecord("jsonMarshal header failed", "Marshalling failed") >>)
    \o << [level |-> "INFO", msg |-> "Request completed",
           attrs |-> ("duration(ms)" :> duration)
                       @@ [status |-> rd.status, size |-> rd.size,
                           headers |-> IF jsonMarshalOk THEN rw.header ELSE << >>,
                           body |-> rd.body]] >>

\* ------------------------------------------------------------------ state

VARIABLES
  phase,           \* main: "boot", "configured" (InitConfig returned), "serving",
                   \* "signalled" (ctx.Done()), "shutdown" (srv.Shutdown called),
                   \* "exited", "fatal" (log.Fatal), "panicked"
  configFile,      \* conf/config.yaml as os.ReadFile and yaml.Unmarshal find it
  revProxyConfig,  \* config.revProxyConfig, the process-wide policy
  revProxy,        \* the RevProxy that main builds
  jsonMarshal,     \* middleware.jsonMarshal: "json.Marshal", or the failing function
                   \* a test puts in its place
  pc,              \* where the goroutine of the exchange stands
  inbound,         \* the request as the server handed it to Logger.ServeHTTP
  req,             \* the *http.Request as the handlers have changed it
  stream,          \* the body stream of the inbound request, as the reads left it
  w,               \* the server's http.ResponseWriter
  responseData,    \* the responseData of the loggingResponseWriter
  handlerCalls,    \* the calls the wrapped handler made on the logging writer
  resp,            \* the *http.Response of the origin, in the forwarding engine
  origin,          \* what the forwarding engine and the origin were asked
  hookErr,         \* what modifyResponse returned
  log,             \* the slog records of the exchange
  gateRuns,        \* the results of direct calls of shouldBlockRequest
  directCalls,     \* the arguments and results of direct calls of other functions
  cur,             \* the worker goroutine whose exchange the variables above hold
  parked           \* the exchanges of the other worker goroutines

mainVars == << phase, configFile, revProxy, jsonMarshal >>

exchangeVars ==
  << pc, inbound, req, stream, w, responseData, handlerCalls, resp, origin, hookErr, log >>

directVars == << gateRuns, directCalls >>

workerVars == << cur, parked >>

vars == << mainVars, revProxyConfig, exchangeVars, directVars, workerVars >>

\* ----------------------------------------------------------------- bounds

\* The bytes one Read of a network body stream delivers at most.
ReadSize == 4

\* The bytes the forwarding engine copies per Write (its copy buffer).
CopyBufSize == 8

\* The calls a wrapped handler makes on the logging writer in one exchange.
MaxHandlerCalls == 3

\* The direct calls of shouldBlockRequest on one request.
MaxGateRuns == 2

\* The direct calls of a function in one run.
MaxDirectCalls == 2

\* The worker goroutines that serve exchanges at the same time.
MaxWorkers == 2

\* ----------------------------------------------------------------- inputs

V(c) == Bytes(<< c >>)

KeyPw == Bytes(<< "p", "w" >>)
KeyCc == Bytes(<< "c", "c" >>)
KeyId == Bytes(<< "i", "d" >>)

TargetUrl == Bytes(<< "h", "t", "t", "p", ":", "/", "/", "l", "o", "c", "a", "l", "h", "o", "s", "t" >>)
TargetPort == Bytes(<< "9", "0", "0", "0" >>)

PolicyFile(headers, params, keys) ==
  [targetUrl |-> TargetUrl, targetPort |-> TargetPort,
   blockedHeaders |-> headers, blockedQueryParams |-> params, maskedNeededKeys |-> keys]

\* The policy files the served exchanges run under.
ConfigFiles ==
  { PolicyFile(<< "X-Custom-Key", "Accesstoken" >>, << "filter", "category" >>,
               << KeyPw, KeyCc >>),
    PolicyFile(<< "X-Custom-Key" >>, << >>, << KeyCc, KeyPw, KeyPw >>),
    PolicyFile(<< >>, << >>, << >>) }

HeaderMaps(names) == UNION {[keys -> {<< V("1") >>}] : keys \in SUBSET names}

Request(method, header, rawQuery, body, broken) ==
  [Method |-> method, Path |-> "/test", RawQuery |-> rawQuery, Header |-> header,
   Host |-> Bytes(<< "g", "w" >>), ContentLength |-> Len(body),
   Body |-> Reader(body, broken)]

Param(name, value) == [name |-> name, value |-> value]

RequestBodies ==
  { << >>,
    Bytes(<< "{", "\"", "p", "w", "\"", ":", "\"", "U+00E9", "\"", "}" >>) }

\* The requests the server hands to the handler chain.
Requests ==
  { Request(m, h, q, b, broken) :
      m \in {"GET", "POST"},
      h \in HeaderMaps({"X-Custom-Key", "Accept"}),
      q \in { << >>, << Param("filter", "1") >>, << Param("page", "2") >>,
              << Param("page", "2"), Param("filter", "1") >> },
      b \in RequestBodies,
      broken \in BOOLEAN }

Response(status, body, broken, chunked) ==
  [StatusCode |-> status,
   Header |-> IF chunked THEN ("Content-Type" :> ContentTypeJSON)
              ELSE ("Content-Type" :> ContentTypeJSON)
                     @@ ("Content-Length" :> Itoa(Len(body) + (IF broken THEN 1 ELSE 0))),
   ContentLength |-> IF chunked THEN -1 ELSE Len(body) + (IF broken THEN 1 ELSE 0),
   Body |-> Reader(body, broken)]

\* The bodies an origin answers with: JSON documents ...
JSONBodies ==
  { Bytes(<< "{", "\"", "p", "w", "\"", ":", "\"", "1", "2", "3", "4", "5", "\"", "}" >>),
    Bytes(<< "{", "\"", "p", "w", "\"", ":", "\"", "1", "2", "3", "4", "5", "\"", ",",
             "\"", "c", "c", "\"", ":", "\"", "1", "2", "3", "4", "-", "4", "5", "6",
             "7", "\"", "}" >>),
    Bytes(<< "{", "\"", "p", "w", "\"", ":", "\"", "U+00E9", "U+00E9", "U+4E16", "\"",
             ",", "\"", "i", "d", "\"", ":", "7", "}" >>),
    Bytes(<< "{", " ", "\"", "i", "d", "\"", " ", ":", " ", "7", " ", ",", " ", "\"",
             "p", "w", "\"", " ", ":", " ", "\"", "a", "b", "\"", " ", "}" >>),
    Bytes(<< "{", "\"", "u", "s", "e", "r", "\"", ":", "{", "\"", "p", "w", "\"", ":",
             "\"", "a", "b", "c", "\"", ",", "\"", "i", "d", "\"", ":", "1", "}", "}" >>),
    Bytes(<< "[", "{", "\"", "p", "w", "\"", ":", "\"", "x", "\"", "}", ",", "{", "\"",
             "c", "c", "\"", ":", "\"", "y", "z", "\"", "}", "]" >>),
    Bytes(<< "{", "\"", "p", "w", "\"", ":", "1", "2", "}" >>),
    Bytes(<< "{", "\"", "p", "w", "\"", ":", "\"", "\"", "}" >>),
    Bytes(<< "{", "\"", "p", "w", "\"", ":", "\"", "1", "\"", ",", "\"", "p", "w", "\"",
             ":", "\"", "2", "2", "\"", "}" >>),
    Bytes(<< "\"", "p", "w", "\"" >>),
    Bytes(<< "1", "2" >>),
    Bytes(<< "n", "u", "l", "l" >>),
    Bytes(<< "{", "}" >>),
    Bytes(<< "{", "\"", "P", "W", "\"", ":", "\"", "a", "b", "c", "\"", "}" >>),
    Bytes(<< "{", "\"", "i", "d", "\"", ":", "\"", "o", "k", "\"", "}" >>),
    Bytes(<< "{", "\"", "p", "w", "\"", ":", "[", "\"", "a", "b", "\"", ",", "\"", "c",
             "\"", "]", "}" >>),
    Bytes(<< "{", "\"", "t", "a", "g", "s", "\"", ":", "[", "\"", "p", "w", "\"", ",",
             "\"", "c", "c", "\"", "]", ",", "\"", "o", "k", "\"", ":", "t", "r", "u",
             "e", "}" >>) }

\* ... and bodies that are not JSON: HTML, empty, plain text, binary, broken JSON.
OtherBodies ==
  { Bytes(<< "<", "h", "t", "m", "l", ">", "<", "/", "h", "t", "m", "l", ">" >>),
    << >>,
    Bytes(<< "h", "i", " ", "t", "h", "e", "r", "e" >>),
    Bytes(<< "NUL", "0xFF" >>),
    Bytes(<< "{", "\"", "p", "w", "\"", ":", "\"", "1", "2", "3", "4", "5", "\"" >>),
    Bytes(<< "{", "\"", "p", "w", "\"", ":", "\"", "1", "2", "3", "4", "5", "\"", "}",
             "x" >>),
    Bytes(<< "{", "p", "w", ":", "\"", "1", "\"", "}" >>),
    Bytes(<< "{", "\"", "p", "w", "\"", ":", "\"", "1", "\"", ",", "}" >>) }

\* The answers of the origin to the served exchanges.
OriginResponses ==
  { Response(status, body, broken, FALSE) :
      status \in {200, 403, 404},
      body \in { Bytes(<< "{", "\"", "p", "w", "\"", ":", "\"", "U+00E9", "U+00E9", "U+4E16", "\"",
             ",", "\"", "i", "d", "\"", ":", "7", "}" >>),
                 Bytes(<< "{", "\"", "i", "d", "\"", ":", "\"", "o", "k", "\"", "}" >>),
                 Bytes(<< "<", "h", "t", "m", "l", ">", "<", "/", "h", "t", "m", "l", ">" >>),
                 << >> },
      broken \in BOOLEAN }

\* The byte counts the server's writer may accept of a Write of b: all of b, or,
\* when the connection to the caller fails, none or half of it.
Accepted(b) == {Len(b)} \cup (IF b = << >> THEN {} ELSE {0, Len(b) \div 2})

\* The byte counts the server's writer may accept of a Write of b that is the first
\* of its response and fits the writer's buffer: net/http keeps the first 2048
\* bytes of a body in a bufio.Writer, so the Write returns Len(b) and no error
\* whatever the state of the connection.
AcceptedBuffered(b) == {Len(b)}

NoRequest == Request("", << >>, << >>, << >>, FALSE)
NoResponse == [StatusCode |-> 0, Header |-> << >>, ContentLength |-> 0,
               Body |-> Reader(<< >>, FALSE)]
NoOrigin == [engine |-> 0, calls |-> 0, body |-> << >>, answer |-> NoResponse]

\* url.Parse(rawUrl).Host for "http://host:port".
URLHost(rawUrl) == SubSeq(rawUrl, 8, Len(rawUrl))

\* A policy file without any entry.
EmptyPolicyFile ==
  [targetUrl |-> << >>, targetPort |-> << >>,
   blockedHeaders |-> << >>, blockedQueryParams |-> << >>, maskedNeededKeys |-> << >>]

ConfigSource(readErr, yamlErr, file) ==
  [readErr |-> readErr, yamlErr |-> yamlErr, file |-> file]

\* What the process may find at conf/config.yaml: a policy file, a file without
\* entries, no readable file, a file that is not valid YAML.
ConfigSources ==
  { ConfigSource(FALSE, FALSE, file) : file \in ConfigFiles \cup {EmptyPolicyFile} }
    \cup { ConfigSource(TRUE, FALSE, EmptyPolicyFile),
           ConfigSource(FALSE, TRUE,
                        PolicyFile(<< "X-Custom-Key" >>, << "filter" >>, << KeyPw >>)) }

\* time.Now().Unix() at the start of an exchange, and the milliseconds it takes.
Clock == {1700000000, 1700000001}
Durations == {0, 7}

\* url.Parse(rawUrl) fails with "missing protocol scheme" on a text that starts
\* with a colon.
URLParseFails(rawUrl) == rawUrl[1] = 58

\* The state of the exchange of one worker goroutine.
Exchange ==
  [pc |-> pc, inbound |-> inbound, req |-> req, stream |-> stream, w |-> w,
   responseData |-> responseData, handlerCalls |-> handlerCalls, resp |-> resp,
   origin |-> origin, hookErr |-> hookErr, log |-> log]

IdleExchange ==
  [pc |-> "idle", inbound |-> NoRequest, req |-> NoRequest, stream |-> NoRequest.Body,
   w |-> NewResponseWriter, responseData |-> NewResponseData, handlerCalls |-> << >>,
   resp |-> NoResponse, origin |-> NoOrigin, hookErr |-> "nil", log |-> << >>]

\* A call made on the logging writer.
WriteHeaderCall(statusCode) ==
  [op |-> "WriteHeader", code |-> statusCode, b |-> << >>, size |-> 0, err |-> "nil"]

\* Write(b) and what it returned to the handler.
WriteCall(b, size, err) == [op |-> "Write", code |-> 0, b |-> b, size |-> size, err |-> err]

\* ---------------------------------------------------------------- startup

\* InitConfig that logs a failure of loadConfig and returns.
InitConfigLogsError ==
  /\ phase = "boot"
  /\ phase' = "configured"
  /\ revProxyConfig' =
       IF configFile.readErr THEN revProxyConfig
       ELSE IF configFile.yamlErr
       THEN yamlUnmarshalFailed(revProxyConfig, configFile.file)
       ELSE loadConfig(revProxyConfig, configFile.file)
  /\ UNCHANGED << configFile, jsonMarshal, revProxy, exchangeVars, directVars, workerVars >>

\* main: config.InitConfig() loads the policy file into the process-wide policy;
\* loadConfig panics when the file cannot be read or is not valid YAML.
InitConfig ==
  /\ phase = "boot"
  /\ IF configFile.readErr
     THEN /\ phase' = "panicked"
          /\ UNCHANGED revProxyConfig
     ELSE IF configFile.yamlErr
     THEN /\ phase' = "panicked"
          /\ revProxyConfig' = yamlUnmarshalFailed(revProxyConfig, configFile.file)
     ELSE /\ phase' = "configured"
          /\ revProxyConfig' = loadConfig(revProxyConfig, configFile.file)
  /\ UNCHANGED << configFile, jsonMarshal, revProxy, exchangeVars, directVars, workerVars >>

\* main: NewRevProxy(cfg.TargetUrl + ":" + cfg.TargetPort), a panic on its error;
\* then the server listens with middleware.NewLogger(revProxy) as its handler.
ListenAndServe ==
  /\ phase = "configured"
  /\ \E rawUrl \in {revProxyConfig.TargetUrl \o << 58 >> \o revProxyConfig.TargetPort} :
       IF URLParseFails(rawUrl)
       THEN /\ phase' = "panicked"
            /\ UNCHANGED revProxy
       ELSE /\ revProxy' = [target |-> [Host |-> URLHost(rawUrl)]]
            /\ phase' = "serving"
  /\ UNCHANGED << configFile, jsonMarshal, revProxyConfig, exchangeVars, directVars, workerVars >>

\* --------------------------------------------------------------- exchange

\* jsonMarshal(headers) returns without error: json.Marshal does for every map of
\* header names to lists of strings.
MarshalSucceeds == jsonMarshal = "json.Marshal"

\* The process runs and its handlers may take steps.
Alive == phase \in {"serving", "signalled", "shutdown"}

\* The listener of the server accepts connections.
Listening == phase \in {"serving", "signalled"}

\* The server hands a request of `requests` to Logger.ServeHTTP, which makes the
\* responseData and the logging writer of the exchange.
AcceptOf(requests) ==
  /\ Listening
  /\ pc = "idle"
  /\ \E r \in requests : inbound' = r /\ req' = r /\ stream' = r.Body
  /\ w' = NewResponseWriter
  /\ responseData' = NewResponseData
  /\ handlerCalls' = << >>
  /\ pc' = "record"
  /\ UNCHANGED << mainVars, revProxyConfig, resp, origin, hookErr, log, directVars,
                  workerVars >>

Accept == AcceptOf(Requests)

\* Logger.ServeHTTP: recordRequest(r)
RecordRequest ==
  /\ Alive
  /\ pc = "record"
  /\ \E now \in Clock :
       \E out \in {recordRequest(req, ReadSize, MarshalSucceeds, now)} :
         /\ req' = out.req
         /\ stream' = out.source
         /\ log' = log \o out.log
  /\ pc' = "gate"
  /\ UNCHANGED << mainVars, revProxyConfig, inbound, w, responseData, handlerCalls, resp,
                  origin, hookErr, directVars, workerVars >>

\* A gate for requests of every method.
GatedMethodAny(r) == TRUE

\* req.Method == http.MethodGet
GatedMethod(r) == r.Method = "GET"

\* RevProxy.ServeHTTP up to the call of the forwarding engine: a GET request that
\* shouldBlockRequest rejects is answered by http.Error; any other request gets the
\* target's host and goes to rp.proxy.ServeHTTP.
Gate ==
  /\ Alive
  /\ pc = "gate"
  /\ \E headerOrder \in RangeOrders(DOMAIN req.Header),
        paramOrder \in RangeOrders(DOMAIN URLQuery(req.RawQuery)) :
       /\ revProxyConfig' =
            IF GatedMethod(req)
            THEN AfterShouldBlockRequest(revProxyConfig, headerOrder, paramOrder)
            ELSE revProxyConfig
       /\ IF GatedMethod(req)
               /\ shouldBlockRequest(revProxyConfig, headerOrder, paramOrder).blocked
          THEN
            \E n \in AcceptedBuffered(BlockedMessage \o << 10 >>) :
              \E out \in {httpError(w, responseData, BlockedMessage, StatusForbidden, n)} :
                /\ w' = out.w
                /\ responseData' = out.responseData
                /\ handlerCalls' = handlerCalls
                                     \o << WriteHeaderCall(StatusForbidden),
                                           WriteCall(BlockedMessage \o << 10 >>,
                                                     out.size, out.err) >>
                /\ pc' = "handled"
                /\ UNCHANGED << req, origin >>
          ELSE
            /\ req' = [req EXCEPT !.Host = revProxy.target.Host]
            /\ origin' = [origin EXCEPT !.engine = @ + 1]
            /\ pc' = "roundtrip"
            /\ UNCHANGED << w, responseData, handlerCalls >>
  /\ UNCHANGED << mainVars, inbound, stream, resp, hookErr, log, directVars, workerVars >>

\* The forwarding engine's default ErrorHandler: a 502 without body.
ProxyErrorHandler ==
  \E out \in {lrwWriteHeader(w, responseData, StatusBadGateway)} :
    /\ w' = out.w
    /\ responseData' = out.responseData
    /\ handlerCalls' = Append(handlerCalls, WriteHeaderCall(StatusBadGateway))
    /\ pc' = "handled"

\* httputil.ReverseProxy with the origin's answers `answers`: the transport reads
\* the request body and sends the request; the origin answers, or cannot be reached.
RoundTripOf(answers) ==
  /\ Alive
  /\ pc = "roundtrip"
  /\ \E sent \in {ReadAll(req.Body, ReadSize, << >>)} :
       /\ req' = [req EXCEPT !.Body = sent.reader]
       /\ IF sent.err # "nil"
          THEN ProxyErrorHandler /\ UNCHANGED << resp, origin >>
          ELSE
            \/ ProxyErrorHandler /\ UNCHANGED << resp, origin >>
            \/ \E answer \in answers :
                 /\ origin' = [origin EXCEPT !.calls = @ + 1, !.body = sent.data,
                                             !.answer = answer]
                 /\ resp' = answer
                 /\ pc' = "modify"
                 /\ UNCHANGED << w, responseData, handlerCalls >>
  /\ UNCHANGED << mainVars, revProxyConfig, inbound, stream, hookErr, log, directVars,
                  workerVars >>

RoundTrip == RoundTripOf(OriginResponses)

\* httputil.ReverseProxy: the ModifyResponse hook, modifyResponse; on its error the
\* ErrorHandler answers, else the response's headers and status code are written.
ModifyResponse ==
  /\ Alive
  /\ pc = "modify"
  /\ \E out \in {modifyResponse(revProxyConfig, resp, ReadSize)} :
       /\ resp' = out.r
       /\ hookErr' = out.err
       /\ IF out.err # "nil"
          THEN ProxyErrorHandler
          ELSE
            \E hd \in {lrwWriteHeader([w EXCEPT !.header = out.r.Header @@ @],
                                        responseData, out.r.StatusCode)} :
              /\ w' = hd.w
              /\ responseData' = hd.responseData
              /\ handlerCalls' = Append(handlerCalls, WriteHeaderCall(out.r.StatusCode))
              /\ pc' = "copy"
  /\ UNCHANGED << mainVars, revProxyConfig, inbound, req, stream, origin, log, directVars,
                  workerVars >>

\* httputil.ReverseProxy: one round of copying the response body to the writer; the
\* copy ends at the end of the body or at the first Write that fails.
CopyResponse ==
  /\ Alive
  /\ pc = "copy"
  /\ IF resp.Body.data = << >>
     THEN /\ pc' = "handled"
          /\ UNCHANGED << w, responseData, handlerCalls, resp >>
     ELSE
       \E n \in Accepted(ReadChunk(resp.Body, CopyBufSize)) :
         \E out \in {lrwWrite(w, responseData, ReadChunk(resp.Body, CopyBufSize), n)} :
           /\ w' = out.w
           /\ responseData' = out.responseData
           /\ handlerCalls' = Append(handlerCalls,
                                     WriteCall(ReadChunk(resp.Body, CopyBufSize),
                                               out.size, out.err))
           /\ resp' = [resp EXCEPT !.Body = AfterRead(@, CopyBufSize)]
           /\ pc' = IF out.err # "nil" THEN "handled" ELSE "copy"
  /\ UNCHANGED << mainVars, revProxyConfig, inbound, req, stream, origin, hookErr, log,
                  directVars, workerVars >>

\* A Logger that calls recordResponse before it calls the handler.
RecordResponseBeforeHandler ==
  /\ Alive
  /\ pc = "gate"
  /\ \A i \in DOMAIN log : log[i].msg # "Request completed"
  /\ \E duration \in Durations :
       log' = log \o recordResponse(w, responseData, MarshalSucceeds, duration)
  /\ UNCHANGED << mainVars, revProxyConfig, pc, inbound, req, stream, w, responseData,
                  handlerCalls, resp, origin, hookErr, directVars, workerVars >>

\* Logger.ServeHTTP: the handler has returned; recordResponse(lrw, duration)
RecordResponse ==
  /\ Alive
  /\ pc = "handled"
  /\ \E duration \in Durations :
       log' = log \o recordResponse(w, responseData, MarshalSucceeds, duration)
  /\ pc' = "done"
  /\ UNCHANGED << mainVars, revProxyConfig, inbound, req, stream, w, responseData,
                  handlerCalls, resp, origin, hookErr, directVars, workerVars >>

\* Logger.ServeHTTP returns: the state of the exchange is dropped.
Finish ==
  /\ Alive
  /\ pc = "done"
  /\ pc' = "idle"
  /\ inbound' = NoRequest
  /\ req' = NoRequest
  /\ stream' = NoRequest.Body
  /\ w' = NewResponseWriter
  /\ responseData' = NewResponseData
  /\ handlerCalls' = << >>
  /\ resp' = NoResponse
  /\ origin' = NoOrigin
  /\ hookErr' = "nil"
  /\ log' = << >>
  /\ UNCHANGED << mainVars, revProxyConfig, directVars, workerVars >>

\* The process after construction: the policy is the zero value, nothing is served.
Init ==
  /\ phase = "boot"
  /\ configFile \in ConfigSources
  /\ revProxyConfig = ZeroConfig
  /\ revProxy = [target |-> [Host |-> << >>]]
  /\ jsonMarshal = "json.Marshal"
  /\ pc = "idle"
  /\ inbound = NoRequest
  /\ req = NoRequest
  /\ stream = NoRequest.Body
  /\ w = NewResponseWriter
  /\ responseData = NewResponseData
  /\ handlerCalls = << >>
  /\ resp = NoResponse
  /\ origin = NoOrigin
  /\ hookErr = "nil"
  /\ log = << >>
  /\ gateRuns = << >>
  /\ directCalls = << >>
  /\ cur = 1
  /\ parked = << >>

Next ==
  \/ InitConfig
  \/ ListenAndServe
  \/ Accept
  \/ RecordRequest
  \/ Gate
  \/ RoundTrip
  \/ ModifyResponse
  \/ CopyResponse
  \/ RecordResponse
  \/ Finish

Spec == Init /\ [][Next]_vars

\* ------------------------------------------- shouldBlockRequest called directly

\* The requests and policies of direct calls of shouldBlockRequest (main_test.go).
GateRequests ==
  { Request(m, h, q, << >>, FALSE) :
      m \in {"GET", "POST"},
      h \in HeaderMaps({"X-Custom-Key", "Accept", "Accesstoken"}),
      q \in { << >>, << Param("page", "2") >>,
              << Param("page", "2"), Param("filter", "1") >>,
              << Param("filter", "1"), Param("category", "2"), Param("filter", "3") >> } }

ServingHost == URLHost(TargetUrl \o << 58 >> \o TargetPort)

\* The policy file of the runs that start with a loaded policy.
ServedSource == ConfigSource(FALSE, FALSE, PolicyFile(<< >>, << >>, << >>))

\* A test, or any caller, holds a request and the policy, and calls the function.
InitGate ==
  /\ phase = "serving"
  /\ configFile \in {ConfigSource(FALSE, FALSE, file) : file \in ConfigFiles}
  /\ revProxyConfig = loadConfig(ZeroConfig, configFile.file)
  /\ revProxy = [target |-> [Host |-> ServingHost]]
  /\ jsonMarshal = "json.Marshal"
  /\ pc = "call"
  /\ inbound \in GateRequests
  /\ req = inbound
  /\ stream = inbound.Body
  /\ w = NewResponseWriter
  /\ responseData = NewResponseData
  /\ handlerCalls = << >>
  /\ resp = NoResponse
  /\ origin = NoOrigin
  /\ hookErr = "nil"
  /\ log = << >>
  /\ gateRuns = << >>
  /\ directCalls = << >>
  /\ cur = 1
  /\ parked = << >>

\* blocked := shouldBlockRequest(req); each call ranges over the two maps in an
\* order of its own.
ShouldBlockRequest ==
  /\ pc = "call"
  /\ Len(gateRuns) < MaxGateRuns
  /\ \E headerOrder \in RangeOrders(DOMAIN req.Header),
        paramOrder \in RangeOrders(DOMAIN URLQuery(req.RawQuery)) :
       \E out \in {shouldBlockRequest(revProxyConfig, headerOrder, paramOrder)} :
         /\ gateRuns' = Append(gateRuns, [headerOrder |-> headerOrder,
                                          paramOrder |-> paramOrder,
                                          blocked |-> out.blocked, by |-> out.by])
         /\ revProxyConfig' =
              AfterShouldBlockRequest(revProxyConfig, headerOrder, paramOrder)
  /\ UNCHANGED << mainVars, exchangeVars, directCalls, workerVars >>

NextGate == ShouldBlockRequest

SpecGate == InitGate /\ [][NextGate]_vars

\* ------------------------------------------------ the hook on any response

\* The policies of the redactor: no mask key, one, several.
MaskConfigs ==
  { loadConfig(ZeroConfig, PolicyFile(<< >>, << "filter" >>, keys)) :
      keys \in { << >>, << KeyPw >>, << KeyCc, KeyPw >>,
                 << KeyId >> } }

\* The request of the exchange whose response the hook gets.
ForwardedRequest == Request("GET", << >>, << >>, << >>, FALSE)

\* The start of the exchanges that begin after recordRequest.
StartTime == CHOOSE now \in Clock : \A t \in Clock : now <= t

\* The forwarding engine has the origin's answer to a forwarded request and is
\* about to call the ModifyResponse hook.
InitRedact ==
  /\ phase = "serving"
  /\ revProxyConfig \in MaskConfigs
  /\ configFile = ConfigSource(FALSE, FALSE,
                               PolicyFile(<< >>, << "filter" >>,
                                          revProxyConfig.MaskedNeededKeys))
  /\ revProxy = [target |-> [Host |-> ServingHost]]
  /\ jsonMarshal = "json.Marshal"
  /\ pc = "modify"
  /\ inbound = ForwardedRequest
  /\ req = [recordRequest(ForwardedRequest, ReadSize, TRUE, StartTime).req
              EXCEPT !.Host = ServingHost]
  /\ stream = recordRequest(ForwardedRequest, ReadSize, TRUE, StartTime).source
  /\ w = NewResponseWriter
  /\ responseData = NewResponseData
  /\ handlerCalls = << >>
  /\ resp \in { Response(StatusOK, body, broken, chunked) :
                  body \in JSONBodies \cup OtherBodies,
                  broken \in BOOLEAN, chunked \in BOOLEAN }
  /\ origin = [engine |-> 1, calls |-> 1, body |-> << >>, answer |-> resp]
  /\ hookErr = "nil"
  /\ log = recordRequest(ForwardedRequest, ReadSize, TRUE, StartTime).log
  /\ gateRuns = << >>
  /\ directCalls = << >>
  /\ cur = 1
  /\ parked = << >>

NextRedact ==
  \/ ModifyResponse
  \/ CopyResponse
  \/ RecordResponse

SpecRedact == InitRedact /\ [][NextRedact]_vars

\* ------------------------------------------- a handler on the logging writer

\* The byte slices a wrapped handler writes.
HandlerChunks ==
  { << >>, Bytes(<< "o", "k" >>), Bytes(<< "U+00E9", "!", "x" >>) }

\* Logger.ServeHTTP has recorded the request and calls l.handler.ServeHTTP(lrw, r).
InitWriter ==
  /\ phase = "serving"
  /\ configFile = ServedSource
  /\ revProxyConfig = loadConfig(ZeroConfig, configFile.file)
  /\ revProxy = [target |-> [Host |-> ServingHost]]
  /\ jsonMarshal = "json.Marshal"
  /\ pc = "handler"
  /\ inbound = ForwardedRequest
  /\ req = recordRequest(ForwardedRequest, ReadSize, TRUE, StartTime).req
  /\ stream = recordRequest(ForwardedRequest, ReadSize, TRUE, StartTime).source
  /\ w = NewResponseWriter
  /\ responseData = NewResponseData
  /\ handlerCalls = << >>
  /\ resp = NoResponse
  /\ origin = NoOrigin
  /\ hookErr = "nil"
  /\ log = recordRequest(ForwardedRequest, ReadSize, TRUE, StartTime).log
  /\ gateRuns = << >>
  /\ directCalls = << >>
  /\ cur = 1
  /\ parked = << >>

\* The handler calls w.Write(b); the real writer accepts n bytes of b.
HandlerWrite ==
  /\ Alive
  /\ pc = "handler"
  /\ Len(w.calls) < MaxHandlerCalls
  /\ \E b \in HandlerChunks :
       \E n \in 0..Len(b) :
         \E out \in {lrwWrite(w, responseData, b, n)} :
           /\ w' = out.w
           /\ responseData' = out.responseData
           /\ handlerCalls' = Append(handlerCalls, WriteCall(b, out.size, out.err))
  /\ UNCHANGED << mainVars, revProxyConfig, pc, inbound, req, stream, resp, origin,
                  hookErr, log, directVars, workerVars >>

\* The status codes a wrapped handler passes to WriteHeader; 42 is no status code.
HandlerStatusCodes == {StatusOK, StatusNotFound, 42}

\* The handler calls w.WriteHeader(statusCode); a panic of the real writer unwinds
\* the handler and Logger.ServeHTTP.
HandlerWriteHeader ==
  /\ Alive
  /\ pc = "handler"
  /\ Len(w.calls) < MaxHandlerCalls
  /\ \E statusCode \in HandlerStatusCodes :
       \E out \in {lrwWriteHeader(w, responseData, statusCode)} :
         /\ w' = out.w
         /\ responseData' = out.responseData
         /\ handlerCalls' = Append(handlerCalls, WriteHeaderCall(statusCode))
         /\ pc' = IF out.panic THEN "panic" ELSE pc
  /\ UNCHANGED << mainVars, revProxyConfig, inbound, req, stream, resp, origin,
                  hookErr, log, directVars, workerVars >>

\* The handler returns to Logger.ServeHTTP.
HandlerReturn ==
  /\ Alive
  /\ pc = "handler"
  /\ pc' = "handled"
  /\ UNCHANGED << mainVars, revProxyConfig, inbound, req, stream, w, responseData,
                  handlerCalls, resp, origin, hookErr, log, directVars, workerVars >>

NextWriter ==
  \/ HandlerWrite
  \/ HandlerWriteHeader
  \/ HandlerReturn
  \/ RecordResponse

SpecWriter == InitWriter /\ [][NextWriter]_vars


\* --------------------------------------- the policy's lookups called directly

\* Policy files whose lists repeat entries and differ in case only.
LookupFiles ==
  { PolicyFile(headers, params, keys) :
      headers \in { << >>, << "X-Custom-Key", "Accesstoken", "X-Custom-Key" >>,
                    << "x-custom-key" >> },
      params \in { << >>, << "filter", "category" >>, << "Filter" >> },
      keys \in { << >>, << KeyPw, KeyCc, KeyPw >> } }

\* The names the lookups are asked about.
LookupNames ==
  {"X-Custom-Key", "x-custom-key", "Accesstoken", "filter", "Filter", "category", ""}

\* A test, or any caller, before config.InitConfig().
InitLookup ==
  /\ phase = "boot"
  /\ configFile \in {ConfigSource(FALSE, FALSE, file) : file \in LookupFiles}
  /\ revProxyConfig = ZeroConfig
  /\ revProxy = [target |-> [Host |-> << >>]]
  /\ jsonMarshal = "json.Marshal"
  /\ pc = "idle"
  /\ inbound = NoRequest
  /\ req = NoRequest
  /\ stream = NoRequest.Body
  /\ w = NewResponseWriter
  /\ responseData = NewResponseData
  /\ handlerCalls = << >>
  /\ resp = NoResponse
  /\ origin = NoOrigin
  /\ hookErr = "nil"
  /\ log = << >>
  /\ gateRuns = << >>
  /\ directCalls = << >>
  /\ cur = 1
  /\ parked = << >>

\* config.GetConfig().IsHeaderBlocked(header)
CallIsHeaderBlocked ==
  /\ phase = "configured"
  /\ Len(directCalls) < MaxDirectCalls
  /\ \E header \in LookupNames :
       /\ directCalls' = Append(directCalls,
                                [fn |-> "IsHeaderBlocked", arg |-> header,
                                 out |-> IsHeaderBlocked(revProxyConfig, header)])
       /\ revProxyConfig' = AfterIsHeaderBlocked(revProxyConfig, header)
  /\ UNCHANGED << mainVars, exchangeVars, gateRuns, workerVars >>

\* config.GetConfig().IsQueryParamBlocked(param)
CallIsQueryParamBlocked ==
  /\ phase = "configured"
  /\ Len(directCalls) < MaxDirectCalls
  /\ \E param \in LookupNames :
       /\ directCalls' = Append(directCalls,
                                [fn |-> "IsQueryParamBlocked", arg |-> param,
                                 out |-> IsQueryParamBlocked(revProxyConfig, param)])
       /\ revProxyConfig' = AfterIsQueryParamBlocked(revProxyConfig, param)
  /\ UNCHANGED << mainVars, exchangeVars, gateRuns, workerVars >>

NextLookup ==
  \/ InitConfig
  \/ CallIsHeaderBlocked
  \/ CallIsQueryParamBlocked

SpecLookup == InitLookup /\ [][NextLookup]_vars


\* ------------------------------------- composeRequestHeaders called directly

\* Header maps with several values under a name, and with entries of their own
\* under Host and Content-Length.
ComposeHeaders ==
  { [name \in names |->
       CASE name = "Accept" -> << V("a"), V("b") >>
         [] name = "Host" -> << Bytes(<< "e", "x" >>) >>
         [] OTHER -> << V("5"), V("6") >>] :
      names \in SUBSET {"Accept", "Host", "Content-Length"} }

\* The requests composeRequestHeaders is called with: nil, and requests whose
\* ContentLength is unknown (-1), zero or positive.
ComposeRequests ==
  {NilRequest}
    \cup { [Request("GET", header, << >>, << >>, FALSE) EXCEPT !.ContentLength = length] :
             header \in ComposeHeaders, length \in {-1, 0, 12} }

\* A test, or recordRequest, is about to call the function.
InitCompose ==
  /\ phase = "serving"
  /\ configFile = ServedSource
  /\ revProxyConfig = loadConfig(ZeroConfig, configFile.file)
  /\ revProxy = [target |-> [Host |-> ServingHost]]
  /\ jsonMarshal = "json.Marshal"
  /\ pc = "call"
  /\ inbound = NoRequest
  /\ req = NoRequest
  /\ stream = NoRequest.Body
  /\ w = NewResponseWriter
  /\ responseData = NewResponseData
  /\ handlerCalls = << >>
  /\ resp = NoResponse
  /\ origin = NoOrigin
  /\ hookErr = "nil"
  /\ log = << >>
  /\ gateRuns = << >>
  /\ directCalls = << >>
  /\ cur = 1
  /\ parked = << >>

\* headers := composeRequestHeaders(req)
CallComposeRequestHeaders ==
  /\ pc = "call"
  /\ Len(directCalls) < MaxDirectCalls
  /\ \E r \in ComposeRequests :
       directCalls' = Append(directCalls,
                             [fn |-> "composeRequestHeaders", arg |-> r,
                              out |-> composeRequestHeaders(r)])
  /\ UNCHANGED << mainVars, revProxyConfig, exchangeVars, gateRuns, workerVars >>

NextCompose == CallComposeRequestHeaders

SpecCompose == InitCompose /\ [][NextCompose]_vars


\* ----------------------------------------- maskSensitiveInfo called directly

\* A test, or modifyResponse, holds a text and the policy, and calls the function.
InitMask ==
  /\ phase = "serving"
  /\ revProxyConfig \in MaskConfigs
  /\ configFile = ConfigSource(FALSE, FALSE,
                               PolicyFile(<< >>, << "filter" >>,
                                          revProxyConfig.MaskedNeededKeys))
  /\ revProxy = [target |-> [Host |-> ServingHost]]
  /\ jsonMarshal = "json.Marshal"
  /\ pc = "call"
  /\ inbound = NoRequest
  /\ req = NoRequest
  /\ stream = NoRequest.Body
  /\ w = NewResponseWriter
  /\ responseData = NewResponseData
  /\ handlerCalls = << >>
  /\ resp = NoResponse
  /\ origin = NoOrigin
  /\ hookErr = "nil"
  /\ log = << >>
  /\ gateRuns = << >>
  /\ directCalls = << >>
  /\ cur = 1
  /\ parked = << >>

\* masked, err := maskSensitiveInfo(data)
CallMaskSensitiveInfo ==
  /\ pc = "call"
  /\ Len(directCalls) < MaxDirectCalls
  /\ \E data \in JSONBodies \cup OtherBodies :
       \E masked \in {maskSensitiveInfo(revProxyConfig, data)} :
         directCalls' = Append(directCalls,
                               [fn |-> "maskSensitiveInfo", arg |-> data,
                                out |-> masked.out, err |-> masked.err])
  /\ UNCHANGED << mainVars, revProxyConfig, exchangeVars, gateRuns, workerVars >>

NextMask == CallMaskSensitiveInfo

SpecMask == InitMask /\ [][NextMask]_vars


\* ------------------------------------- the server, its workers and its shutdown

\* The requests and the origin's answers of the exchanges that run side by side.
ServerRequests ==
  { Request("GET", ("X-Custom-Key" :> << V("1") >>), << >>,
            Bytes(<< "{", "}" >>), FALSE),
    Request("GET", << >>, << Param("page", "2") >>, << >>, FALSE) }

ServerResponses ==
  { Response(StatusOK, Bytes(<< "{", "\"", "p", "w", "\"", ":", "\"", "1", "\"", "}" >>),
             FALSE, FALSE) }

\* The worker goroutines of the server, and those with an exchange under way.
Workers == {cur} \cup DOMAIN parked

PcOf(worker) == IF worker = cur THEN pc ELSE parked[worker].pc

InFlight == {worker \in Workers : PcOf(worker) # "idle"}

\* The process after construction, with the goroutines the server will run.
InitServer ==
  /\ phase = "boot"
  /\ configFile \in ConfigSources
  /\ revProxyConfig = ZeroConfig
  /\ revProxy = [target |-> [Host |-> << >>]]
  /\ jsonMarshal = "json.Marshal"
  /\ pc = "idle"
  /\ inbound = NoRequest
  /\ req = NoRequest
  /\ stream = NoRequest.Body
  /\ w = NewResponseWriter
  /\ responseData = NewResponseData
  /\ handlerCalls = << >>
  /\ resp = NoResponse
  /\ origin = NoOrigin
  /\ hookErr = "nil"
  /\ log = << >>
  /\ gateRuns = << >>
  /\ directCalls = << >>
  /\ cur = 1
  /\ parked = [worker \in 2..MaxWorkers |-> IdleExchange]

ServerAccept == AcceptOf(ServerRequests)

ServerRoundTrip == RoundTripOf(ServerResponses)

\* A Logger whose exchanges all write into one responseData.
SwitchSharedResponseData ==
  /\ Alive
  /\ \E worker \in DOMAIN parked :
       /\ cur' = worker
       /\ parked' = [other \in (Workers \ {worker}) |->
                       IF other = cur THEN Exchange ELSE parked[other]]
       /\ pc' = parked[worker].pc
       /\ inbound' = parked[worker].inbound
       /\ req' = parked[worker].req
       /\ stream' = parked[worker].stream
       /\ w' = parked[worker].w
       /\ responseData' = responseData
       /\ handlerCalls' = parked[worker].handlerCalls
       /\ resp' = parked[worker].resp
       /\ origin' = parked[worker].origin
       /\ hookErr' = parked[worker].hookErr
       /\ log' = parked[worker].log
  /\ UNCHANGED << mainVars, revProxyConfig, directVars >>

\* The scheduler runs another worker goroutine.
Switch ==
  /\ Alive
  /\ \E worker \in DOMAIN parked :
       /\ cur' = worker
       /\ parked' = [other \in (Workers \ {worker}) |->
                       IF other = cur THEN Exchange ELSE parked[other]]
       /\ pc' = parked[worker].pc
       /\ inbound' = parked[worker].inbound
       /\ req' = parked[worker].req
       /\ stream' = parked[worker].stream
       /\ w' = parked[worker].w
       /\ responseData' = parked[worker].responseData
       /\ handlerCalls' = parked[worker].handlerCalls
       /\ resp' = parked[worker].resp
       /\ origin' = parked[worker].origin
       /\ hookErr' = parked[worker].hookErr
       /\ log' = parked[worker].log
  /\ UNCHANGED << mainVars, revProxyConfig, directVars >>

\* main: <-ctx.Done() returns, a SIGINT or SIGTERM has arrived; main goes on to
\* stop(), the log line and the timeout context while the server still listens.
Signal ==
  /\ phase = "serving"
  /\ phase' = "signalled"
  /\ UNCHANGED << configFile, jsonMarshal, revProxy, revProxyConfig, exchangeVars, directVars,
                  workerVars >>

\* main: srv.Shutdown(ctx) is called and closes the listener.
Shutdown ==
  /\ phase = "signalled"
  /\ phase' = "shutdown"
  /\ UNCHANGED << configFile, jsonMarshal, revProxy, revProxyConfig, exchangeVars, directVars,
                  workerVars >>

\* A Shutdown that returns without waiting for the exchanges under way.
ShutdownReturnsAtOnce ==
  /\ phase = "shutdown"
  /\ phase' = "exited"
  /\ UNCHANGED << configFile, jsonMarshal, revProxy, revProxyConfig, exchangeVars, directVars,
                  workerVars >>

\* srv.Shutdown returns nil once no exchange is under way; main logs and returns.
ShutdownReturns ==
  /\ phase = "shutdown"
  /\ InFlight = {}
  /\ phase' = "exited"
  /\ UNCHANGED << configFile, jsonMarshal, revProxy, revProxyConfig, exchangeVars, directVars,
                  workerVars >>

\* The five seconds pass with an exchange under way: srv.Shutdown returns the
\* context's error and main ends the process with log.Fatal.
ShutdownTimeout ==
  /\ phase = "shutdown"
  /\ InFlight # {}
  /\ phase' = "fatal"
  /\ UNCHANGED << configFile, jsonMarshal, revProxy, revProxyConfig, exchangeVars, directVars,
                  workerVars >>

\* A step of the current worker's exchange, once accepted.
WorkerStep ==
  \/ RecordRequest
  \/ Gate
  \/ ServerRoundTrip
  \/ ModifyResponse
  \/ CopyResponse
  \/ RecordResponse
  \/ Finish

NextServer ==
  \/ InitConfig
  \/ ListenAndServe
  \/ ServerAccept
  \/ WorkerStep
  \/ Switch
  \/ Signal
  \/ Shutdown
  \/ ShutdownReturns
  \/ ShutdownTimeout

SpecServer == InitServer /\ [][NextServer]_vars


\* ------------------------------- the recorder with jsonMarshal as tests set it

\* The requests of the exchanges recorded with either jsonMarshal.
RecorderRequests ==
  { Request("GET", ("X-Custom-Key" :> << V("1") >>), << >>, << >>, FALSE),
    Request("POST", ("Accept" :> << V("1") >>), << >>,
            Bytes(<< "{", "\"", "i", "d", "\"", ":", "7", "}" >>), FALSE),
    Request("POST", << >>, << Param("page", "2") >>,
            Bytes(<< "{", "\"", "i", "d", "\"", ":", "7", "}" >>), TRUE) }

\* The server serves; jsonMarshal is json.Marshal, or a test has replaced it by a
\* function that returns an error.
InitRecorder ==
  /\ phase = "serving"
  /\ configFile = ConfigSource(FALSE, FALSE,
                               PolicyFile(<< "X-Custom-Key" >>, << >>, << KeyPw >>))
  /\ revProxyConfig = loadConfig(ZeroConfig, configFile.file)
  /\ revProxy = [target |-> [Host |-> ServingHost]]
  /\ jsonMarshal \in {"json.Marshal", "Marshalling failed"}
  /\ pc = "idle"
  /\ inbound = NoRequest
  /\ req = NoRequest
  /\ stream = NoRequest.Body
  /\ w = NewResponseWriter
  /\ responseData = NewResponseData
  /\ handlerCalls = << >>
  /\ resp = NoResponse
  /\ origin = NoOrigin
  /\ hookErr = "nil"
  /\ log = << >>
  /\ gateRuns = << >>
  /\ directCalls = << >>
  /\ cur = 1
  /\ parked = << >>

RecorderAccept == AcceptOf(RecorderRequests)

NextRecorder ==
  \/ RecorderAccept
  \/ RecordRequest
  \/ Gate
  \/ ServerRoundTrip
  \/ ModifyResponse
  \/ CopyResponse
  \/ RecordResponse
  \/ Finish

SpecRecorder == InitRecorder /\ [][NextRecorder]_vars


\* ------------------------------------------------------------- properties

\* The bytes the handlers offered to the server's writer, in order.
RECURSIVE Offered(_)
Offered(calls) ==
  IF calls = << >> THEN << >>
  ELSE Offered(SubSeq(calls, 1, Len(calls) - 1))
         \o (IF calls[Len(calls)].op = "Write" THEN calls[Len(calls)].b ELSE << >>)

\* The request carries a header whose name is an entry of blockedHeaders.
HasBlockedHeader ==
  \E h \in DOMAIN inbound.Header : h \in Range(revProxyConfig.BlockedHeaders)

\* The query string carries a parameter whose name is an entry of blockedQueryParams.
HasBlockedQueryParam ==
  \E i \in DOMAIN inbound.RawQuery :
    inbound.RawQuery[i].name \in Range(revProxyConfig.BlockedQueryParams)

\* The handler chain of the exchange has returned.
Answered == pc \in {"handled", "done"}

\* The gate's rejection with `body` as the body text: status 403 first, then one
\* Write of the body, and neither the forwarding engine nor the origin was called.
Rejected(body) ==
  /\ w.status = StatusForbidden
  /\ responseData.status = StatusForbidden
  /\ Len(w.calls) = 2
  /\ w.calls[1].op = "WriteHeader" /\ w.calls[1].code = StatusForbidden
  /\ w.calls[2].op = "Write" /\ w.calls[2].b = body
  /\ origin.engine = 0
  /\ origin.calls = 0

\* C1 (as amended): a GET request with a header whose name is in blockedHeaders is
\* answered with status 403 and the body "Request blocked by proxy rules" followed
\* by a line feed, and the forwarding engine and the origin are never invoked.
C1_BlockedHeaderRejected ==
  (Answered /\ inbound.Method = "GET" /\ HasBlockedHeader)
    => Rejected(BlockedMessage \o << 10 >>)

\* A GET request blocked by its header alone was answered, the whole body delivered.
C1_Witness ==
  /\ pc = "done"
  /\ inbound.Method = "GET"
  /\ HasBlockedHeader /\ ~HasBlockedQueryParam
  /\ w.status = StatusForbidden
  /\ w.body = BlockedMessage \o << 10 >>

\* C1 as stated: the body of the rejection is the fixed message itself.
C1_BodyIsMessage ==
  (Answered /\ inbound.Method = "GET" /\ HasBlockedHeader) => Rejected(BlockedMessage)

\* C2 (as amended): a GET request with a blocked query parameter name is rejected
\* the same way (403, the message and a line feed, origin never contacted),
\* whatever headers it carries.
C2_BlockedParamRejected ==
  (Answered /\ inbound.Method = "GET" /\ HasBlockedQueryParam)
    => Rejected(BlockedMessage \o << 10 >>)

\* A GET request with a header that is not blocked and a blocked parameter was rejected.
C2_Witness ==
  /\ pc = "done"
  /\ inbound.Method = "GET"
  /\ HasBlockedQueryParam /\ ~HasBlockedHeader
  /\ DOMAIN inbound.Header # {}
  /\ Len(w.calls) = 2 /\ w.calls[1].code = StatusForbidden
  /\ origin.engine = 0

\* C2 as stated: every request with a blocked query parameter name, of any method,
\* gets status 403 with the fixed message and never reaches the origin.
C2_AnyMethodRejected ==
  (Answered /\ HasBlockedQueryParam)
    => /\ w.status = StatusForbidden
       /\ Len(Offered(w.calls)) >= Len(BlockedMessage)
       /\ SubSeq(Offered(w.calls), 1, Len(BlockedMessage)) = BlockedMessage
       /\ origin.engine = 0
       /\ origin.calls = 0

\* The gate's message was written to the caller.
BlockedMessageWritten ==
  \E i \in DOMAIN w.calls :
    w.calls[i].op = "Write" /\ w.calls[i].b = BlockedMessage \o << 10 >>

\* C3: a request whose method is not GET is never rejected by the gate, blocked
\* headers or parameters or not: it is handed to the forwarding engine, the blocked
\* message is never written, and a 403 can only be the origin's own.
C3_NonGetNeverRejected ==
  (inbound.Method # "GET" /\ pc \notin {"idle", "record", "gate"})
    => /\ origin.engine = 1
       /\ ~BlockedMessageWritten
       /\ (w.status = StatusForbidden
             => origin.calls = 1 /\ origin.answer.StatusCode = StatusForbidden)

\* A POST request with a blocked header and a blocked parameter reached the origin.
C3_Witness ==
  /\ pc = "done"
  /\ inbound.Method = "POST"
  /\ HasBlockedHeader /\ HasBlockedQueryParam
  /\ origin.engine = 1 /\ origin.calls = 1
  /\ w.status = StatusOK

\* C4 (as amended): a request with no blocked header name and no blocked query
\* parameter name is handed to the forwarding engine and never gets the gate's
\* rejection; when the origin answers and modifyResponse returns no error, the
\* caller receives the origin's status code unchanged.
C4_PassesWithOriginStatus ==
  (Answered /\ ~HasBlockedHeader /\ ~HasBlockedQueryParam)
    => /\ origin.engine = 1
       /\ ~BlockedMessageWritten
       /\ (origin.calls = 1 /\ hookErr = "nil"
             => /\ w.status = origin.answer.StatusCode
                /\ responseData.status = origin.answer.StatusCode)

\* A GET request with a header that is not blocked got the origin's 404.
C4_Witness ==
  /\ pc = "done"
  /\ inbound.Method = "GET"
  /\ DOMAIN inbound.Header # {}
  /\ revProxyConfig.BlockedHeaders # << >>
  /\ ~HasBlockedHeader /\ ~HasBlockedQueryParam
  /\ origin.calls = 1 /\ hookErr = "nil"
  /\ origin.answer.StatusCode = StatusNotFound
  /\ w.status = StatusNotFound

\* C4 as stated: whenever the origin answered such a request, the caller receives
\* the origin's status code.
C4_AlwaysOriginStatus ==
  (Answered /\ ~HasBlockedHeader /\ ~HasBlockedQueryParam /\ origin.calls = 1)
    => w.status = origin.answer.StatusCode

\* C5: every call of shouldBlockRequest on the same request and policy returns the
\* same boolean, whatever the order in which the header names and the parameter
\* names are visited: the OR of the two membership tests.
C5_GateDeterministic ==
  \A i \in DOMAIN gateRuns :
    /\ gateRuns[i].blocked = (HasBlockedHeader \/ HasBlockedQueryParam)
    /\ \A j \in DOMAIN gateRuns : gateRuns[j].blocked = gateRuns[i].blocked

\* Two calls visited the names in different orders and left the loops at different
\* names, with the same result.
C5_Witness ==
  /\ Len(gateRuns) >= 2
  /\ gateRuns[1].headerOrder # gateRuns[2].headerOrder
  /\ gateRuns[1].by # gateRuns[2].by
  /\ gateRuns[1].blocked /\ gateRuns[2].blocked
  /\ \E h \in DOMAIN req.Header : h \notin Range(revProxyConfig.BlockedHeaders)


\* An HTML page.
HtmlBody == Bytes(<< "<", "h", "t", "m", "l", ">", "<", "/", "h", "t", "m", "l", ">" >>)

\* Every byte of s is the mask character.
Stars(s) == \A i \in DOMAIN s : s[i] = 42

\* `after` is `before` redacted for the keys in K: the same structure, a string
\* under a key in K replaced by one mask character per character, all else equal.
RECURSIVE Redacted(_, _, _)
Redacted(K, before, after) ==
  CASE before.k = "obj" ->
         /\ after.k = "obj"
         /\ DOMAIN after.m = DOMAIN before.m
         /\ \A key \in DOMAIN before.m :
              IF key \in K /\ before.m[key].k = "str"
              THEN /\ after.m[key].k = "str"
                   /\ Stars(after.m[key].s)
                   /\ Len(after.m[key].s) = RuneCountInString(before.m[key].s)
              ELSE Redacted(K, before.m[key], after.m[key])
    [] before.k = "arr" ->
         /\ after.k = "arr"
         /\ Len(after.a) = Len(before.a)
         /\ \A i \in DOMAIN before.a : Redacted(K, before.a[i], after.a[i])
    [] OTHER -> after = before

\* modifyResponse has returned without error and nothing of the body is copied yet.
JustModified == pc = "copy" /\ hookErr = "nil" /\ Len(w.calls) = 1

\* C6: for a JSON body and the mask keys K (maskedNeededKeys), the redacted body is
\* the same document with every string value under a key in K replaced by as many
\* '*' as the value has characters; the structure and all other values are unchanged.
C6_StringsUnderMaskKeysStarred ==
  (JustModified /\ isJSONBody(origin.answer.Body.data))
    => \A before \in {Unmarshal(origin.answer.Body.data)},
          after \in {Unmarshal(resp.Body.data)} :
         /\ after.ok
         /\ Redacted(Range(revProxyConfig.MaskedNeededKeys), before.v, after.v)

\* {"pw":"12345","cc":"1234-4567"} with the mask key pw alone became
\* {"cc":"1234-4567","pw":"*****"}.
C6_Witness ==
  /\ JustModified
  /\ revProxyConfig.MaskedNeededKeys = << KeyPw >>
  /\ origin.answer.Body.data =
       Bytes(<< "{", "\"", "p", "w", "\"", ":", "\"", "1", "2", "3", "4", "5", "\"", ",",
                "\"", "c", "c", "\"", ":", "\"", "1", "2", "3", "4", "-", "4", "5", "6",
                "7", "\"", "}" >>)
  /\ resp.Body.data =
       Bytes(<< "{", "\"", "c", "c", "\"", ":", "\"", "1", "2", "3", "4", "-", "4", "5",
                "6", "7", "\"", ",", "\"", "p", "w", "\"", ":", "\"", "*", "*", "*", "*",
                "*", "\"", "}" >>)

\* C7: for a response whose body was read to its end and does not parse as JSON,
\* modifyResponse returns no error, the body the forwarding engine reads after it is
\* byte for byte the origin's body, and the headers, Content-Length among them, are
\* as the origin sent them, for every mask-key configuration.
C7_NonJSONPassesThrough ==
  (pc # "modify" /\ ~origin.answer.Body.broken /\ ~isJSONBody(origin.answer.Body.data))
    => /\ hookErr = "nil"
       /\ Offered(w.calls) \o resp.Body.data = origin.answer.Body.data
       /\ resp.Header = origin.answer.Header
       /\ \A name \in DOMAIN origin.answer.Header :
            name \in DOMAIN w.header /\ w.header[name] = origin.answer.Header[name]

\* An HTML body went to the caller whole, under a policy with mask keys.
C7_Witness ==
  /\ pc = "done"
  /\ revProxyConfig.MaskedNeededKeys # << >>
  /\ origin.answer.Body.data = HtmlBody
  /\ ~origin.answer.Body.broken
  /\ hookErr = "nil"
  /\ w.body = HtmlBody
  /\ "Content-Length" \in DOMAIN w.header

\* strconv.Atoi of a text of decimal digits, as the caller reads Content-Length.
RECURSIVE Atoi(_)
Atoi(s) ==
  IF s = << >> THEN 0
  ELSE 10 * Atoi(SubSeq(s, 1, Len(s) - 1)) + (s[Len(s)] - 48)

\* C8: after modifyResponse has succeeded on a JSON body, the Content-Length header
\* is the number of bytes of the body that is emitted (what was copied to the
\* caller and what is still to be copied), not its number of characters.
C8_ContentLengthIsByteLength ==
  (pc # "modify" /\ hookErr = "nil" /\ isJSONBody(origin.answer.Body.data))
    => /\ "Content-Length" \in DOMAIN resp.Header
       /\ \A i \in DOMAIN resp.Header["Content-Length"] :
            IsDigit(resp.Header["Content-Length"][i])
       /\ Atoi(resp.Header["Content-Length"]) = Len(Offered(w.calls) \o resp.Body.data)
       /\ w.header["Content-Length"] = resp.Header["Content-Length"]

\* A body with multi-byte characters under a mask key went out shorter than it
\* came, with a Content-Length that is neither the origin's nor a character count.
C8_Witness ==
  /\ pc = "done"
  /\ hookErr = "nil"
  /\ isJSONBody(origin.answer.Body.data)
  /\ KeyPw \in Range(revProxyConfig.MaskedNeededKeys)
  /\ RuneCountInString(origin.answer.Body.data) < Len(origin.answer.Body.data)
  /\ Len(w.body) < Len(origin.answer.Body.data)
  /\ "Content-Length" \in DOMAIN origin.answer.Header
  /\ w.header["Content-Length"] # origin.answer.Header["Content-Length"]
  /\ Atoi(w.header["Content-Length"]) = Len(w.body)

\* C9: for a request whose body can be read to its end, the body text in the
\* request record is what a direct read of the body yields, the handler that
\* reads req.Body after recordRequest gets the same bytes to the end, and so
\* does the origin of a forwarded request.
C9_BodyRecordedAndReplayed ==
  (~inbound.Body.broken /\ pc \notin {"idle", "record"})
    => /\ \E i \in DOMAIN log :
            /\ log[i].msg = "Record request"
            /\ log[i].attrs.body = ReadAll(inbound.Body, ReadSize, << >>).data
       /\ (pc = "gate"
             => ReadAll(req.Body, ReadSize, << >>) =
                  [data |-> inbound.Body.data, err |-> "nil",
                   reader |-> Reader(<< >>, FALSE)])
       /\ (origin.calls = 1 => origin.body = inbound.Body.data)

\* A request with a body of several reads was recorded and its body reached the origin.
C9_Witness ==
  /\ pc = "done"
  /\ Len(inbound.Body.data) > 2 * ReadSize
  /\ ~inbound.Body.broken
  /\ origin.calls = 1
  /\ origin.body = inbound.Body.data
  /\ log[1].msg = "Record request" /\ log[1].attrs.body = inbound.Body.data

\* The sum of the byte counts the real writer returned for the Write calls.
RECURSIVE Returned(_)
Returned(calls) ==
  IF calls = << >> THEN 0
  ELSE Returned(SubSeq(calls, 1, Len(calls) - 1))
         + (IF calls[Len(calls)].op = "Write" THEN calls[Len(calls)].n ELSE 0)

\* C10: after any sequence of Write calls on the logging writer, responseData.size
\* is the sum of the sizes of the writes passed through it, the byte counts the
\* real writer returned, and that sum is the size in the completion record.
C10_SizeIsSumOfWrites ==
  /\ responseData.size = Returned(w.calls)
  /\ (pc = "done"
        => /\ log[Len(log)].msg = "Request completed"
           /\ log[Len(log)].attrs.size = Returned(w.calls))

\* A handler wrote a body in several chunks and the completion record has the total.
C10_Witness ==
  /\ pc = "done"
  /\ Cardinality({i \in DOMAIN w.calls : w.calls[i].op = "Write" /\ w.calls[i].n > 0}) >= 2
  /\ \A i \in DOMAIN w.calls : w.calls[i].n = Len(w.calls[i].b)
  /\ responseData.size = Len(w.body)
  /\ log[Len(log)].attrs.size = Len(w.body)

\* C11: the capture buffer of the logging writer holds the concatenation of exactly
\* the bytes the real writer accepted, short writes included.
C11_CaptureIsAcceptedBytes == responseData.body = w.body

\* The calls the handler made on the logging writer reached the real writer, the
\* same calls with the same arguments in the same order.
WrittenThrough ==
  /\ Len(w.calls) = Len(handlerCalls)
  /\ \A i \in DOMAIN handlerCalls :
       /\ w.calls[i].op = handlerCalls[i].op
       /\ w.calls[i].code = handlerCalls[i].code
       /\ w.calls[i].b = handlerCalls[i].b

\* The first status code of the calls: what the caller gets as status.
FirstStatus(hcalls) ==
  IF hcalls = << >> THEN 0
  ELSE IF Head(hcalls).op = "WriteHeader" THEN Head(hcalls).code ELSE StatusOK

\* The records of the exchange are a "Record request" and a "Request completed".
TwoRecords ==
  /\ Len(log) = 2
  /\ log[1].level = "INFO" /\ log[1].msg = "Record request"
  /\ log[2].level = "INFO" /\ log[2].msg = "Request completed"

\* What the caller received is what the handler wrote: every call was passed on,
\* the status is the handler's, and the body is the handler's bytes as far as the
\* connection accepted them (all of them when no write was cut short).
CallerGotHandlersAnswer ==
  /\ WrittenThrough
  /\ w.status = FirstStatus(handlerCalls)
  /\ (\A i \in DOMAIN w.calls : w.calls[i].n = Len(w.calls[i].b))
       => w.body = Offered(handlerCalls)

BadConfigFile == configFile.readErr \/ configFile.yamlErr

\* C13: when the policy file is unreadable or not valid YAML, loadConfig panics and
\* the process never serves: past InitConfig the file was good and the policy is
\* the whole policy of that file; with a bad file the process is booting or has
\* panicked, and no exchange has started.
C13_BadPolicyFileNeverServes ==
  /\ phase \in {"configured", "serving"}
       => /\ ~BadConfigFile
          /\ revProxyConfig = loadConfig(ZeroConfig, configFile.file)
  /\ BadConfigFile => (phase \in {"boot", "panicked"} /\ pc = "idle" /\ log = << >>)

C13_Witness ==
  /\ phase = "panicked"
  /\ configFile.yamlErr
  /\ revProxyConfig # ZeroConfig
  /\ revProxyConfig.BlockedHeadersMap = {}
  /\ configFile.file.blockedHeaders # << >>

\* C14: after a successful loadConfig the key sets of the three lookup maps are
\* the entries of the three lists of the file; IsHeaderBlocked and
\* IsQueryParamBlocked answered true exactly for the names that are, letter for
\* letter, an entry of the list; and the lookups left the policy as it was loaded.
C14_LookupsAreExactMembership ==
  phase = "configured" =>
    /\ revProxyConfig.BlockedHeadersMap = Range(configFile.file.blockedHeaders)
    /\ revProxyConfig.BlockedQueryParamsMap = Range(configFile.file.blockedQueryParams)
    /\ revProxyConfig.MaskedNeededKeysMap = Range(configFile.file.maskedNeededKeys)
    /\ revProxyConfig.BlockedHeaders = configFile.file.blockedHeaders
    /\ revProxyConfig.BlockedQueryParams = configFile.file.blockedQueryParams
    /\ revProxyConfig.MaskedNeededKeys = configFile.file.maskedNeededKeys
    /\ \A i \in DOMAIN directCalls :
         directCalls[i].out =
           (\E j \in DOMAIN (IF directCalls[i].fn = "IsHeaderBlocked"
                             THEN configFile.file.blockedHeaders
                             ELSE configFile.file.blockedQueryParams) :
              (IF directCalls[i].fn = "IsHeaderBlocked"
               THEN configFile.file.blockedHeaders
               ELSE configFile.file.blockedQueryParams)[j] = directCalls[i].arg)

C14_Witness ==
  /\ phase = "configured"
  /\ Len(configFile.file.blockedHeaders) > Cardinality(revProxyConfig.BlockedHeadersMap)
  /\ Len(directCalls) = 2
  /\ directCalls[1] = [fn |-> "IsHeaderBlocked", arg |-> "x-custom-key", out |-> FALSE]
  /\ directCalls[2] = [fn |-> "IsHeaderBlocked", arg |-> "X-Custom-Key", out |-> TRUE]

\* The map composeRequestHeaders returned has, for a request that is not nil, the
\* request's header names plus Content-Length and Host, with Content-Length the
\* decimal text of req.ContentLength and Host the text of req.Host.
ComposedKeysAndSynthetic(call) ==
  IF call.arg = NilRequest THEN call.out = << >>
  ELSE
    /\ DOMAIN call.out = DOMAIN call.arg.Header \cup {"Content-Length", "Host"}
    /\ call.out["Content-Length"] = << Itoa(call.arg.ContentLength) >>
    /\ call.out["Host"] = << call.arg.Host >>

\* C15: composeRequestHeaders returns an empty map for a nil request; otherwise
\* the map holds every header name of the request other than Content-Length and
\* Host with its full list of values, a Content-Length entry with the decimal text
\* of req.ContentLength and a Host entry with req.Host, and nothing else.
C15_ComposedHeaders ==
  \A i \in DOMAIN directCalls :
    /\ ComposedKeysAndSynthetic(directCalls[i])
    /\ directCalls[i].arg # NilRequest =>
         \A name \in DOMAIN directCalls[i].arg.Header \ {"Content-Length", "Host"} :
           directCalls[i].out[name] = directCalls[i].arg.Header[name]

C15_Witness ==
  /\ Len(directCalls) = 2
  /\ directCalls[1].arg = NilRequest
  /\ directCalls[1].out = << >>
  /\ directCalls[2].arg # NilRequest
  /\ directCalls[2].arg.ContentLength = -1
  /\ DOMAIN directCalls[2].arg.Header = {"Accept", "Host"}
  /\ directCalls[2].out["Accept"] = << V("a"), V("b") >>
  /\ directCalls[2].out["Content-Length"] = << Bytes(<< "-", "1" >>) >>
  /\ directCalls[2].out["Host"] = << Bytes(<< "g", "w" >>) >>

\* C15 as stated: every header name of the request with its full list of values.
C15_EveryHeaderWithItsValues ==
  \A i \in DOMAIN directCalls :
    /\ ComposedKeysAndSynthetic(directCalls[i])
    /\ directCalls[i].arg # NilRequest =>
         \A name \in DOMAIN directCalls[i].arg.Header :
           directCalls[i].out[name] = directCalls[i].arg.Header[name]

\* C16: for every text that is not valid JSON maskSensitiveInfo returns an error
\* that is not nil and no masked text, whatever the mask keys of the policy are.
C16_NonJSONIsAnError ==
  \A i \in DOMAIN directCalls :
    (directCalls[i].arg \in OtherBodies \/ ~isJSONBody(directCalls[i].arg))
      => (directCalls[i].err # "nil" /\ directCalls[i].out = << >>)

C16_Witness ==
  /\ Len(directCalls) = 2
  /\ revProxyConfig.MaskedNeededKeys = << KeyCc, KeyPw >>
  /\ directCalls[1].arg = HtmlBody
  /\ directCalls[1].err # "nil"
  /\ directCalls[2].arg \in JSONBodies
  /\ directCalls[2].err = "nil"
  /\ directCalls[2].out # directCalls[2].arg

\* The request records and the completion records of the log.
RequestRecords == {i \in DOMAIN log : log[i].msg = "Record request"}
CompletionRecords == {i \in DOMAIN log : log[i].msg = "Request completed"}

\* C17: the request record carries exactly the fields timestamp, method, path,
\* query, headers and body, the completion record exactly the fields status, size,
\* duration(ms), headers and body.
C17_RecordFields ==
  /\ \A i \in RequestRecords :
       DOMAIN log[i].attrs = {"timestamp", "method", "path", "query", "headers", "body"}
  /\ \A i \in CompletionRecords :
       DOMAIN log[i].attrs = {"status", "size", "duration(ms)", "headers", "body"}

C17_Witness ==
  /\ pc = "done"
  /\ RequestRecords = {1}
  /\ CompletionRecords = {2}
  /\ log[1].attrs.timestamp \in Clock
  /\ log[2].attrs["duration(ms)"] = 7

\* C17 as stated: the duration field of the completion record is duration_ms.
C17_DurationMsField ==
  /\ \A i \in RequestRecords :
       DOMAIN log[i].attrs = {"timestamp", "method", "path", "query", "headers", "body"}
  /\ \A i \in CompletionRecords :
       DOMAIN log[i].attrs = {"status", "size", "duration_ms", "headers", "body"}

\* C18: the process-wide policy is written at startup only: whatever way the
\* steps of the workers interleave, no step taken while the server serves (up to
\* the end of the process) changes the policy.
C18_PolicyFrozenWhileServing ==
  [][(phase \in {"serving", "signalled", "shutdown"})
       => (revProxyConfig' = revProxyConfig)]_vars

C18_Witness ==
  /\ phase = "serving"
  /\ revProxyConfig.BlockedHeadersMap # {}
  /\ pc = "done"
  /\ w.status = StatusForbidden
  /\ \E worker \in DOMAIN parked :
       /\ parked[worker].pc = "copy"
       /\ parked[worker].inbound.RawQuery # << >>
       /\ parked[worker].origin.calls = 1

\* The places of an exchange from which its next step is computed for ENABLED
\* (at "modify" the hook runs, guarded by the place alone).
StepPlaces == {"record", "gate", "roundtrip", "copy", "handled", "done"}

\* C19: once srv.Shutdown has been called no new worker starts an exchange; the
\* exchanges under way go on taking their steps; Shutdown returns without error
\* only when no exchange is under way, and fails only when one still is.
C19_GracefulShutdown ==
  [][ /\ phase \in {"shutdown", "exited", "fatal"} => InFlight' \subseteq InFlight
      /\ (phase = "shutdown" /\ pc \in StepPlaces) => ENABLED WorkerStep
      /\ (phase = "shutdown" /\ phase' = "exited") => InFlight = {}
      /\ (phase = "shutdown" /\ phase' = "fatal") => InFlight # {} ]_vars

\* Two exchanges under way after srv.Shutdown was called, one about to finish.
C19_Witness ==
  /\ phase = "shutdown"
  /\ pc = "done"
  /\ \E worker \in DOMAIN parked : parked[worker].pc = "handled"

\* C19 as stated: no new worker starts once the signal has been received.
C19_NoWorkerAfterSignal ==
  [][(phase \in {"signalled", "shutdown", "exited", "fatal"})
       => InFlight' \subseteq InFlight]_vars

\* The exchange of a GET request that the policy blocks has been answered.
BlockedAnswered ==
  /\ Answered
  /\ inbound.Method = "GET"
  /\ HasBlockedHeader \/ HasBlockedQueryParam

\* C20: for a blocked request through the full chain the forwarding engine is not
\* invoked and nothing of the request body is forwarded; the gate reads nothing of
\* the body, the replayable copy the recorder left stays whole; the recorder, which
\* runs before the gate, has read the inbound body stream to its end.
C20_BlockedNotForwarded ==
  BlockedAnswered =>
    /\ origin.engine = 0
    /\ origin.calls = 0
    /\ origin.body = << >>
    /\ stream.data = << >>
    /\ ~inbound.Body.broken => req.Body = Reader(inbound.Body.data, FALSE)

C20_Witness ==
  /\ pc = "done"
  /\ BlockedAnswered
  /\ inbound.Body.data # << >>
  /\ ~inbound.Body.broken
  /\ stream.data = << >>
  /\ req.Body.data = inbound.Body.data
  /\ log[1].attrs.body = inbound.Body.data
  /\ w.status = StatusForbidden

\* C20 as stated: no read of the request body stream happens for the exchange.
C20_BodyStreamNeverRead ==
  BlockedAnswered => (origin.engine = 0 /\ origin.calls = 0 /\ stream = inbound.Body)

\* The positions of the WriteHeader calls among the calls.
WriteHeaderCalls(hcalls) ==
  {i \in DOMAIN hcalls : hcalls[i].op = "WriteHeader" /\ ~WriteHeaderPanics(hcalls[i].code)}

\* The code of the first, and of the last, WriteHeader call that went through.
FirstCode(hcalls) ==
  hcalls[CHOOSE i \in WriteHeaderCalls(hcalls) : \A j \in WriteHeaderCalls(hcalls) : i <= j].code

LastCode(hcalls) ==
  hcalls[CHOOSE i \in WriteHeaderCalls(hcalls) : \A j \in WriteHeaderCalls(hcalls) : i >= j].code

\* C21: when WriteHeader is called more than once on the logging writer, the
\* recorded status code is the code of the first call, and every call is passed
\* unchanged to the real writer.
C21_FirstWriteHeaderWins ==
  /\ WrittenThrough
  /\ WriteHeaderCalls(handlerCalls) # {}
       => responseData.status = FirstCode(handlerCalls)

\* C22: the logging writer is write-through: the real writer gets the handler's
\* calls, same arguments, same order; each call reaches the real writer before its
\* capture step, so that a call in which the real writer panics captures nothing;
\* and Write returns the byte count and the error the real writer returned.
C22_WriteThrough ==
  /\ WrittenThrough
  /\ \A i \in DOMAIN handlerCalls :
       handlerCalls[i].op = "Write" =>
         /\ handlerCalls[i].size = w.calls[i].n
         /\ handlerCalls[i].err = (IF w.calls[i].n < Len(w.calls[i].b)
                                   THEN "short write" ELSE "nil")
  /\ responseData.size = Returned(w.calls)
  /\ responseData.status =
       (IF WriteHeaderCalls(handlerCalls) = {} THEN 0 ELSE LastCode(handlerCalls))

C22_Witness ==
  /\ pc = "panic"
  /\ Len(handlerCalls) = 3
  /\ handlerCalls[1] = WriteHeaderCall(StatusNotFound)
  /\ handlerCalls[2].op = "Write"
  /\ handlerCalls[2].size = 1
  /\ handlerCalls[2].err = "short write"
  /\ handlerCalls[3] = WriteHeaderCall(42)
  /\ responseData.status = StatusNotFound

\* The wrapped handler of the exchange has been invoked: the gate has answered or
\* has called the forwarding engine.
HandlerInvoked == handlerCalls # << >> \/ origin.engine > 0

\* C23: when draining the request body fails in recordRequest, the wrapped handler
\* is never invoked for that exchange.
C23_HandlerNotInvokedAfterReadError ==
  (pc # "idle" /\ inbound.Body.broken) => ~HandlerInvoked

\* recordRequest has run on a request whose body stream fails.
ReadFailed == pc \notin {"idle", "record"} /\ inbound.Body.broken

\* C24: when draining the request body fails in recordRequest, the error event
\* "Error reading from request body" is logged, no "Record request" record is
\* emitted, so no record holds text of the request body, and recordRequest returns:
\* the exchange goes on to the handler.
C24_ReadErrorLoggedNoRecord ==
  ReadFailed =>
    /\ log # << >>
    /\ log[1] = ErrorRecord("Error reading from request body", "unexpected EOF")
    /\ RequestRecords = {}
    /\ \A i \in DOMAIN log : i > 1 => log[i].msg = "Request completed"

C24_Witness ==
  /\ pc = "done"
  /\ inbound.Body.broken
  /\ inbound.Body.data # << >>
  /\ Len(log) = 2
  /\ log[1].level = "ERROR"
  /\ HandlerInvoked

\* The error events of a failed serialisation of headers.
MarshalErrors ==
  {i \in DOMAIN log : log[i] = ErrorRecord("jsonMarshal header failed", "Marshalling failed")}

\* C25: a failure to serialise headers for a record, on the request side or on the
\* response side, is logged as its own error event "jsonMarshal header failed",
\* the record is still emitted with its headers field empty, and the exchange goes
\* on with the handler receiving the whole request body.
C25_MarshalFailureKeepsRecords ==
  (pc = "done" /\ ~MarshalSucceeds /\ ~inbound.Body.broken) =>
    /\ Cardinality(MarshalErrors) = 2
    /\ Cardinality(RequestRecords) = 1
    /\ \A i \in RequestRecords : log[i].attrs.headers = << >>
    /\ Cardinality(CompletionRecords) = 1
    /\ \A i \in CompletionRecords : log[i].attrs.headers = << >>
    /\ req.Body.data = << >> => origin.body = inbound.Body.data

\* What holds of the exchange when jsonMarshal fails: both error events, the
\* completion record with empty headers, no request record, the body forwarded.
C25_RequestRecordDropped ==
  /\ pc = "done"
  /\ ~MarshalSucceeds
  /\ ~inbound.Body.broken
  /\ inbound.Body.data # << >>
  /\ Cardinality(MarshalErrors) = 2
  /\ RequestRecords = {}
  /\ Cardinality(CompletionRecords) = 1
  /\ origin.body = inbound.Body.data

\* What is left of a stream `before` after some of it was read: a tail of its
\* bytes, and how it ends.
RestOf(before, after) ==
  /\ after.broken = before.broken
  /\ \E k \in 0..Len(before.data) :
       after.data = SubSeq(before.data, k + 1, Len(before.data))

\* The three ends of modifyResponse on the response `before`, leaving `after` and
\* returning `err`.
PassThrough(before, after, err) ==
  /\ err = "nil"
  /\ ~isJSONBody(before.Body.data)
  /\ after.Body = Reader(before.Body.data, FALSE)
  /\ after.Header = before.Header

Masked(before, after, err) ==
  /\ err = "nil"
  /\ isJSONBody(before.Body.data)
  /\ after.Body = Reader(maskSensitiveInfo(revProxyConfig, before.Body.data).out, FALSE)
  /\ after.Header =
       HeaderSet(before.Header, "Content-Length", Itoa(Len(after.Body.data)))

Failed(before, after, err) ==
  /\ err # "nil"
  /\ RestOf(before.Body, after.Body)
  /\ after.Header = before.Header

Outcomes(before, after, err) ==
  {o \in {"PassThrough", "Masked", "Failed"} :
     \/ o = "PassThrough" /\ PassThrough(before, after, err)
     \/ o = "Masked" /\ Masked(before, after, err)
     \/ o = "Failed" /\ Failed(before, after, err)}

\* C26: every run of modifyResponse ends in exactly one of PassThrough (the body
\* is not JSON: no error, the same bytes to read, the header as it was), Masked
\* (the body is JSON: no error, the masked text as body and its length in
\* Content-Length) and Failed (the error returned, body and Content-Length not
\* replaced), and the hook is not run again in the exchange.
C26_ExactlyOneOutcome ==
  [][ /\ (pc = "modify") =>
           /\ Cardinality(Outcomes(resp, resp', hookErr')) = 1
           /\ pc' # "modify"
      /\ (pc \in {"copy", "handled"}) => (pc' # "modify") ]_vars

\* The hook has failed on a body stream that broke after some bytes.
C26_Witness ==
  /\ hookErr # "nil"
  /\ origin.answer.Body.data # << >>
  /\ Failed(origin.answer, resp, hookErr)

\* The hook has masked a JSON body into another text.
C26_MaskedReached ==
  /\ JustModified
  /\ resp.Body.data # origin.answer.Body.data
  /\ Masked(origin.answer, resp, hookErr)

\* The hook has let a body through that is not JSON.
C26_PassThroughReached ==
  /\ JustModified
  /\ origin.answer.Body.data # << >>
  /\ PassThrough(origin.answer, resp, hookErr)

\* The places of an exchange before the gate is evaluated, and those after it.
BeforeGate == {"idle", "record", "gate"}

\* The body the hook leaves of the origin's answer when it reads all of it.
HookedBody ==
  IF isJSONBody(origin.answer.Body.data)
  THEN maskSensitiveInfo(revProxyConfig, origin.answer.Body.data).out
  ELSE origin.answer.Body.data

\* recordRequest has run: its record is the first of the exchange (the request
\* record, or the error event of a failed read), and the body stream is read up.
RequestRecorded ==
  /\ log # << >>
  /\ IF inbound.Body.broken
     THEN log[1].msg = "Error reading from request body"
     ELSE log[1].msg = "Record request"
            /\ log[1].attrs.body = inbound.Body.data
  /\ stream.data = << >>

\* C27: the order of the steps of an exchange.  The request record is emitted and
\* the body read into the buffer before the gate is evaluated; the gate is
\* evaluated before the forwarding engine is called, and nothing is written to the
\* caller before it; the bytes written to the caller of a forwarded exchange are
\* those the hook left of the whole body of the origin's answer; the completion
\* record is the last record and is emitted once the handler has returned.
C27_StepOrder ==
  /\ (pc = "gate") =>
       /\ RequestRecorded
       /\ ~inbound.Body.broken => req.Body = Reader(inbound.Body.data, FALSE)
       /\ origin.engine = 0
       /\ w.calls = << >>
  /\ (origin.engine > 0 \/ w.calls # << >>) => (pc \notin BeforeGate /\ RequestRecorded)
  /\ (origin.engine > 0) =>
       ~(GatedMethod(inbound) /\ (HasBlockedHeader \/ HasBlockedQueryParam))
  /\ (origin.calls > 0 /\ Offered(w.calls) # << >>) =>
       /\ hookErr = "nil"
       /\ pc \notin {"roundtrip", "modify"}
       /\ \E k \in 1..Len(HookedBody) : Offered(w.calls) = SubSeq(HookedBody, 1, k)
  /\ (CompletionRecords # {}) =>
       /\ pc = "done"
       /\ CompletionRecords = {Len(log)}
  /\ (pc = "done") => CompletionRecords = {Len(log)}

\* A forwarded exchange is over whose answer was masked and written to the caller
\* in more than one Write.
C27_Witness ==
  /\ pc = "done"
  /\ origin.calls = 1
  /\ HookedBody # origin.answer.Body.data
  /\ Len(w.calls) > 2
  /\ Offered(w.calls) = HookedBody
  /\ RequestRecords = {1}
  /\ CompletionRecords = {2}

\* The exchange of a worker.
ExchangeOf(worker) == IF worker = cur THEN Exchange ELSE parked[worker]

\* The sum of the counts that the Write calls of a handler returned.
RECURSIVE ReturnedSizes(_)
ReturnedSizes(hcalls) ==
  IF hcalls = << >> THEN 0
  ELSE ReturnedSizes(SubSeq(hcalls, 1, Len(hcalls) - 1)) + hcalls[Len(hcalls)].size

\* The responseData and the records of the exchange e come from the calls of its
\* own handler and from its own request.
OwnState(e) ==
  /\ e.responseData.status =
       (IF WriteHeaderCalls(e.handlerCalls) = {} THEN 0 ELSE LastCode(e.handlerCalls))
  /\ e.responseData.size = ReturnedSizes(e.handlerCalls)
  /\ e.responseData.body = Offered(e.handlerCalls)
  /\ (e.pc = "done") =>
       /\ e.log[Len(e.log)].msg = "Request completed"
       /\ e.log[Len(e.log)].attrs.status = e.responseData.status
       /\ e.log[Len(e.log)].attrs.size = e.responseData.size
       /\ e.log[Len(e.log)].attrs.body = e.responseData.body
  /\ (e.pc \notin {"idle", "record"}) => e.log[1].attrs.body = e.inbound.Body.data
  /\ (e.pc = "gate") => e.req.Body.data = e.inbound.Body.data
  /\ (e.origin.calls > 0) => e.origin.body = e.inbound.Body.data

\* C28: with several exchanges in flight at the same Logger, in every interleaving
\* of their steps, each exchange's responseData and completion record (status,
\* size, body) come from the writes of its own handler only, and the request body
\* its handler reads and forwards is the body of its own request.
C28_ExchangesIsolated == \A worker \in Workers : OwnState(ExchangeOf(worker))

\* Two exchanges that were in flight together have ended with different writes: one
\* rejected, one forwarded.
C28_Witness ==
  /\ pc = "done"
  /\ \E worker \in DOMAIN parked :
       /\ parked[worker].pc = "done"
       /\ parked[worker].responseData.status = StatusForbidden
       /\ responseData.status = StatusOK
       /\ responseData.body # << >>
       /\ parked[worker].inbound.Body.data # inbound.Body.data

\* The status of the completion record of the exchange.
RecordedStatus == log[Len(log)].attrs.status

\* C29: once the handler has returned, the status of the completion record is the
\* status code the caller received, also where the handler wrote body bytes and
\* never called WriteHeader, so that the real writer sent 200.
C29_RecordedStatusIsSentStatus ==
  (pc = "done" /\ w.status # 0) =>
    /\ log[Len(log)].msg = "Request completed"
    /\ RecordedStatus = w.status

\* The handler wrote body bytes without WriteHeader: the caller got 200 and the
\* completion record says 0.
C29_ImplicitOKRecordedAsZero ==
  /\ pc = "done"
  /\ WriteHeaderCalls(handlerCalls) = {}
  /\ w.body # << >>
  /\ w.status = StatusOK
  /\ RecordedStatus = 0

\* The completion record of the exchange.
CompletionRecord == log[Len(log)]

\* C30: the exchange of a request that the gate rejects ends with a completion
\* record of status 403, whose body is the blocked message and line feed that the
\* caller was sent, and whose size is the number of bytes of that body.
C30_RejectionRecorded ==
  (pc = "done" /\ BlockedAnswered) =>
    /\ CompletionRecord.msg = "Request completed"
    /\ CompletionRecord.attrs.status = StatusForbidden
    /\ w.status = StatusForbidden
    /\ w.body = BlockedMessage \o << 10 >>
    /\ CompletionRecord.attrs.body = w.body
    /\ CompletionRecord.attrs.size = Len(w.body)
    /\ origin.engine = 0

\* The exchange of a GET request with a blocked query parameter and a body is over.
C30_Witness ==
  /\ pc = "done"
  /\ BlockedAnswered
  /\ HasBlockedQueryParam
  /\ inbound.Body.data # << >>
  /\ CompletionRecords = {Len(log)}
  /\ CompletionRecord.attrs.status = StatusForbidden
  /\ CompletionRecord.attrs.size = Len(BlockedMessage) + 1

====
